---- MODULE Spec2Model ----
(***************************************************************************)
(* go-slack-event-router: the events Router (eventrouter.go), the          *)
(* interaction Router (interactionrouter) and the signature Middleware     *)
(* that wraps their dispatch entry points.                                 *)
(*                                                                         *)
(* A request is served synchronously by one call of Router.ServeHTTP, so   *)
(* serving is one action; its result (the ResponseWriter calls and the     *)
(* handler invocations, in order) is recorded in w and calls. passed       *)
(* records, for each Set* method, whether it was called, the handler of    *)
(* its latest call, and whether an earlier call passed another handler.    *)
(* peer is a second Router of the same program, made by its own call of    *)
(* New.                                                                    *)
(***************************************************************************)
EXTENDS Integers, Sequences, FiniteSets, TLC

VARIABLES router, peer, newErr, newOptions, req, w, calls, passed, inflight, pending

vars == <<router, peer, newErr, newOptions, req, w, calls, passed, inflight, pending>>

----------------------------------------------------------------------------
(* Bounds *)

\* total number of handlers registered with On (Spec)
MaxHandlers == 2
\* total number of handlers registered with On (SpecSig)
MaxSigHandlers == 1
\* number of options passed to New
MaxOptions == 2
\* number of predicates passed with one handler
MaxPreds == 2
\* total number of handlers registered with predicates (SpecPred)
MaxPredHandlers == 1
MaxBlockActions == 2
MaxChunks == 3

----------------------------------------------------------------------------
(* Errors: a chain of WithMessage wrappers around a base error *)

Nil == [base |-> "nil", code |-> 0, wraps |-> 0]

\* routererrors.NotInterested, the "decline" sentinel
NotInterested == [base |-> "NotInterested", code |-> 0, wraps |-> 0]

\* routererrors.HttpError(code)
HttpError(c) == [base |-> "HttpError", code |-> c, wraps |-> 0]

\* fmt.Errorf(...) / a json or io error: neither NotInterested nor HttpError
OtherError == [base |-> "other", code |-> 0, wraps |-> 0]

\* errors.WithMessage(err, msg): nil stays nil, otherwise one more wrapper
WithMessage(err) == IF err = Nil THEN Nil ELSE [err EXCEPT !.wraps = @ + 1]

Unwrap(err) == [err EXCEPT !.wraps = @ - 1]

RECURSIVE ErrorsIs(_, _)
\* errors.Is(err, target): compare, then unwrap and compare again
ErrorsIs(err, target) ==
  IF err = target THEN TRUE
  ELSE IF err.wraps > 0 THEN ErrorsIs(Unwrap(err), target)
  ELSE FALSE

RECURSIVE ErrorsAsHttpError(_)
\* errors.As(err, &httpErr): the first layer of the chain that is an HttpError
ErrorsAsHttpError(err) ==
  IF err.wraps > 0 THEN ErrorsAsHttpError(Unwrap(err))
  ELSE IF err.base = "HttpError" THEN [ok |-> TRUE, code |-> err.code]
  ELSE [ok |-> FALSE, code |-> 0]

StatusOK == 200
StatusBadRequest == 400
StatusUnauthorized == 401
StatusNotFound == 404
StatusInternalServerError == 500

\* the results a caller-supplied handler returns in this model
Results ==
  { Nil, NotInterested, WithMessage(NotInterested),
    HttpError(StatusNotFound), WithMessage(HttpError(StatusUnauthorized)),
    OtherError }

----------------------------------------------------------------------------
(* http.ResponseWriter: code 0 means that no status was written yet *)

NewRecorder == [code |-> 0, body |-> <<>>, ops |-> <<>>]

\* w.WriteHeader(code): only the first status counts
WriteHeader(rw, c) ==
  [rw EXCEPT !.code = IF @ = 0 THEN c ELSE @,
             !.ops = Append(@, [op |-> "WriteHeader", code |-> c])]

\* w.Write(data): writes the status 200 first if none was written
Write(rw, data) ==
  [rw EXCEPT !.code = IF @ = 0 THEN StatusOK ELSE @,
             !.body = Append(@, data),
             !.ops = Append(@, [op |-> "Write", code |-> 0])]

\* the status the client sees
StatusCode(rw) == IF rw.code = 0 THEN StatusOK ELSE rw.code

\* err.Error() as a response body
ErrorText(prefix, err) == [kind |-> "error", prefix |-> prefix, err |-> err]

\* slip: only a bare HttpError is recognised, as a type switch without errors.As would
RespondWithErrorNoUnwrap(rw, err, verboseResponse) ==
  LET httpErr == ErrorsAsHttpError(err)
      w1 == IF err.base = "HttpError" /\ err.wraps = 0
              THEN WriteHeader(rw, httpErr.code)
              ELSE WriteHeader(rw, StatusInternalServerError)
  IN IF verboseResponse THEN Write(w1, ErrorText("", err)) ELSE w1

\* routerutils.RespondWithError
RespondWithError(rw, err, verboseResponse) ==
  LET httpErr == ErrorsAsHttpError(err)
      w1 == IF httpErr.ok
              THEN WriteHeader(rw, httpErr.code)
              ELSE WriteHeader(rw, StatusInternalServerError)
  IN IF verboseResponse THEN Write(w1, ErrorText("", err)) ELSE w1

----------------------------------------------------------------------------
(* Handlers *)

\* a nil Handler (no fallback configured)
NilHandler == [fn |-> "nil", res |-> Nil]

\* a caller-supplied handler that returns res
HandlerFunc(res) == [fn |-> "func", res |-> res]

\* urlverification.DefaultHandler / appratelimited.DefaultHandler
DefaultHandler == [fn |-> "default", res |-> Nil]

\* one handler invocation, as recorded in calls
Call(slot, typ, idx, res) == [slot |-> slot, type |-> typ, idx |-> idx, res |-> res]

EventTypes == {"message", "reaction_added"}

InteractionTypes == {"block_actions", "shortcut"}

----------------------------------------------------------------------------
(* Predicates *)

\* message.TextRegexp(re) with a pattern that is one literal word
TextRegexp(word) == [kind |-> "TextRegexp", arg |-> word]

\* message.Channel(id) / interactionrouter.Channel(id)
Channel(id) == [kind |-> "Channel", arg |-> id]

\* interactionrouter.CallbackID(id)
CallbackID(id) == [kind |-> "CallbackID", arg |-> id]

\* interactionrouter.BlockAction(blockID, actionID)
BlockAction(blockID, actionID) ==
  [kind |-> "BlockAction", arg |-> [blockID |-> blockID, actionID |-> actionID]]

\* no block action found (nil)
NoBlockAction == 0

RECURSIVE FindBlockActionAnyEntryFrom(_, _, _, _)
\* slip: the two fields are looked for on any entries, not on the same one
FindBlockActionAnyEntryFrom(actions, k, blockID, actionID) ==
  IF k > Len(actions) THEN NoBlockAction
  ELSE IF actions[k].block_id = blockID
          /\ \E j \in 1..Len(actions) : actions[j].action_id = actionID
    THEN k
  ELSE FindBlockActionAnyEntryFrom(actions, k + 1, blockID, actionID)

RECURSIVE FindBlockActionFrom(_, _, _, _)
\* the loop of FindBlockAction from the entry k on: the position of the first
\* entry with both fields equal, or nil
FindBlockActionFrom(actions, k, blockID, actionID) ==
  IF k > Len(actions) THEN NoBlockAction
  ELSE IF actions[k].block_id = blockID /\ actions[k].action_id = actionID THEN k
  ELSE FindBlockActionFrom(actions, k + 1, blockID, actionID)

\* interactionrouter.FindBlockAction(callback, blockID, actionID)
FindBlockAction(callback, blockID, actionID) ==
  FindBlockActionFrom(callback.block_actions, 1, blockID, actionID)

\* the condition under which the handler made by p.Wrap(h) goes on to h
\* (re.FindStringIndex finds the word when it occurs in the text)
Matches(p, data) ==
  CASE p.kind = "TextRegexp" -> \E k \in 1..Len(data.text) : data.text[k] = p.arg
    [] p.kind = "Channel" -> data.channel = p.arg
    [] p.kind = "CallbackID" -> data.callback_id = p.arg
    [] p.kind = "BlockAction" ->
         FindBlockAction(data, p.arg.blockID, p.arg.actionID) /= NoBlockAction

\* Predicate.Wrap(h): a handler that tests p and then calls h
Wrap(p, h) == [fn |-> "wrap", pred |-> p, next |-> h]

RECURSIVE BuildLoop(_, _, _)
\* for _, p := range preds { h = p.Wrap(h) }
BuildLoop(h, preds, k) ==
  IF k > Len(preds) THEN h ELSE BuildLoop(Wrap(preds[k], h), preds, k + 1)

RECURSIVE BuildLoopDown(_, _, _)
\* slip: the predicates are wrapped from the last to the first, so that the
\* first one ends up outermost
BuildLoopDown(h, preds, k) ==
  IF k < 1 THEN h ELSE BuildLoopDown(Wrap(preds[k], h), preds, k - 1)

BuildFirstOutermost(h, preds) == BuildLoopDown(h, preds, Len(preds))

\* slip: every predicate wraps the original handler, h = p.Wrap(h0), so that
\* only the last predicate guards it
BuildWrapsOriginal(h, preds) ==
  IF preds = <<>> THEN h ELSE Wrap(preds[Len(preds)], h)

\* message.Build / interactionrouter.Build
Build(h, preds) == BuildLoop(h, preds, 1)

\* the HandlerFunc that OnMessage registers: it asserts the concrete type of
\* the inner event data and calls the built handler
TypedHandler(dtype, h) == [fn |-> "typed", want |-> dtype, next |-> h]

----------------------------------------------------------------------------
(* Router construction *)

\* no Router (New returned nil, or New was not called yet)
NoRouter == [kind |-> "nil"]

NoError == "nil"

Secrets == {"", "S1"}

\* Option values: InsecureSkipVerification(), WithSigningSecret(token), VerboseResponse()
Options ==
  { [opt |-> "InsecureSkipVerification", token |-> ""],
    [opt |-> "VerboseResponse", token |-> ""] }
  \cup { [opt |-> "WithSigningSecret", token |-> t] : t \in Secrets }

OptionLists == UNION { [1..n -> Options] : n \in 0..MaxOptions }

\* the option lists of the tests and examples: one mode, with or without
\* VerboseResponse
UsualOptionLists ==
  { << [opt |-> "InsecureSkipVerification", token |-> ""] >>,
    << [opt |-> "InsecureSkipVerification", token |-> ""],
       [opt |-> "VerboseResponse", token |-> ""] >>,
    << [opt |-> "WithSigningSecret", token |-> "S1"] >>,
    << [opt |-> "WithSigningSecret", token |-> "S1"],
       [opt |-> "VerboseResponse", token |-> ""] >> }

\* the value of newOptions while New was not called
NotCalled == << [opt |-> "none", token |-> ""] >>

\* optionFunc.apply
apply(o, r) ==
  CASE o.opt = "InsecureSkipVerification" -> [r EXCEPT !.skipVerification = TRUE]
    [] o.opt = "WithSigningSecret" -> [r EXCEPT !.signingSecret = o.token]
    [] o.opt = "VerboseResponse" -> [r EXCEPT !.verboseResponse = TRUE]

RECURSIVE ApplyOptions(_, _, _)
\* for _, o := range options { o.apply(r) }
ApplyOptions(r, options, i) ==
  IF i > Len(options) THEN r ELSE ApplyOptions(apply(options[i], r), options, i + 1)

\* the Router struct; the interaction Router has the fields signingSecret,
\* skipVerification, verboseResponse, handlers (here callbackHandlers),
\* fallbackHandler and httpHandler only, its other two slots stay nil.
\* httpHandler names the http.Handler that Router.ServeHTTP delegates to.
EmptyRouter(kind) ==
  [ kind |-> kind,
    signingSecret |-> "",
    skipVerification |-> FALSE,
    verboseResponse |-> FALSE,
    callbackHandlers |-> <<>>,
    urlVerificationHandler |-> IF kind = "events" THEN DefaultHandler ELSE NilHandler,
    appRateLimitedHandler |-> IF kind = "events" THEN DefaultHandler ELSE NilHandler,
    fallbackHandler |-> NilHandler,
    httpHandler |-> "nil" ]

\* the checks and the wrapping shared by both New functions; middleware names
\* the Middleware type the package is compiled against
Construct(kind, options, middleware) ==
  LET r == ApplyOptions(EmptyRouter(kind), options, 1) IN
  IF r.signingSecret = "" /\ ~r.skipVerification
    THEN [router |-> NoRouter, err |-> "WithSigningSecret must be set"]
  ELSE IF r.signingSecret /= "" /\ r.skipVerification
    THEN [router |-> NoRouter, err |-> "both are given"]
  ELSE [router |-> [r EXCEPT !.httpHandler =
                      IF ~r.skipVerification THEN middleware ELSE "serveHTTP"],
        err |-> NoError]

\* slip: the check for both options given is missing
NewSecondCheckMissing(options) ==
  LET r == ApplyOptions(EmptyRouter("events"), options, 1) IN
  IF r.signingSecret = "" /\ ~r.skipVerification
    THEN [router |-> NoRouter, err |-> "WithSigningSecret must be set"]
  ELSE [router |-> [r EXCEPT !.httpHandler =
                      IF ~r.skipVerification THEN "Middleware.SigningSecret" ELSE "serveHTTP"],
        err |-> NoError]

\* slip: the Middleware wraps serveHTTP also when the bypass flag is set
NewAlwaysVerifies(options) ==
  LET res == Construct("events", options, "Middleware.SigningSecret") IN
  IF res.router = NoRouter THEN res
  ELSE [res EXCEPT !.router.httpHandler = "Middleware.SigningSecret"]

\* eventrouter.New: wraps serveHTTP in signature.Middleware{SigningSecret: ...}
New(options) == Construct("events", options, "Middleware.SigningSecret")

\* interactionrouter.New: wraps serveHTTP in signature.Middleware{Secret: ...}
InteractionNew(options) == Construct("interaction", options, "Middleware.Secret")

\* number of handlers in the registry
RECURSIVE SumLens(_, _)
SumLens(m, keys) ==
  IF keys = {} THEN 0
  ELSE LET k == CHOOSE x \in keys : TRUE IN Len(m[k]) + SumLens(m, keys \ {k})

NumHandlers(r) == SumLens(r.callbackHandlers, DOMAIN r.callbackHandlers)

\* slip: the new handler is put in front of the list
OnPrepend(r, eventType, h) ==
  LET ok == eventType \in DOMAIN r.callbackHandlers
      handlers == IF ok THEN r.callbackHandlers[eventType] ELSE <<>>
  IN [r EXCEPT !.callbackHandlers = (eventType :> (<<h>> \o handlers)) @@ @]

\* Router.On (both Routers): append h to the list of eventType
On(r, eventType, h) ==
  LET ok == eventType \in DOMAIN r.callbackHandlers
      handlers == IF ok THEN r.callbackHandlers[eventType] ELSE <<>>
  IN [r EXCEPT !.callbackHandlers = (eventType :> Append(handlers, h)) @@ @]

\* Router.OnMessage: the built handler behind the type assertion, under "message"
OnMessage(r, h, preds) ==
  On(r, "message", TypedHandler("MessageEvent", Build(h, preds)))

\* interactionrouter.Router.On with predicates
InteractionOn(r, typeName, h, preds) == On(r, typeName, Build(h, preds))

\* slip: the fallback is set only while there is none
SetFallbackKeepsFirst(r, h) ==
  IF r.fallbackHandler = NilHandler THEN [r EXCEPT !.fallbackHandler = h] ELSE r

\* Router.SetFallback (both Routers)
SetFallback(r, h) == [r EXCEPT !.fallbackHandler = h]

\* Router.SetURLVerificationHandler
SetURLVerificationHandler(r, h) == [r EXCEPT !.urlVerificationHandler = h]

\* Router.SetAppRateLimitedHandler
SetAppRateLimitedHandler(r, h) == [r EXCEPT !.appRateLimitedHandler = h]

----------------------------------------------------------------------------
(* Requests *)

\* the receiver's clock, Unix seconds
Now == 4000

\* the freshness window of the verifier, seconds
MaxAge == 300

\* values of the X-Slack-Request-Timestamp header; "" is an absent header
TimestampHeaders == {"", "abc", "400", "3700", "4301"}

\* strconv.ParseInt(s, 10, 64) on the header values of the model
ParseInt(s) ==
  CASE s = "400" -> [ok |-> TRUE, v |-> 400]
    [] s = "399" -> [ok |-> TRUE, v |-> 399]
    [] s = "3699" -> [ok |-> TRUE, v |-> 3699]
    [] s = "3701" -> [ok |-> TRUE, v |-> 3701]
    [] s = "4299" -> [ok |-> TRUE, v |-> 4299]
    [] s = "4300" -> [ok |-> TRUE, v |-> 4300]
    [] s = "3700" -> [ok |-> TRUE, v |-> 3700]
    [] s = "4000" -> [ok |-> TRUE, v |-> 4000]
    [] s = "4301" -> [ok |-> TRUE, v |-> 4301]
    [] OTHER -> [ok |-> FALSE, v |-> 0]

Body(kind, arg) == [kind |-> kind, arg |-> arg]

\* request bodies sent to the events Router: a stream that fails to read, a
\* body that is no event envelope, and one envelope per outer type
\* (app_rate_limited once with fields that decode, once with fields that do not)
EventBodies ==
  { Body("readerr", ""), Body("malformed", ""),
    Body("url_verification", "X"), Body("url_verification", "Y"),
    Body("app_rate_limited", "decodes"), Body("app_rate_limited", "undecodable"),
    Body("unknown_type", "") }
  \cup { Body("event_callback", t) : t \in EventTypes }

\* request bodies sent to the interaction Router: a form without payload
\* field, a payload that is not JSON, and one callback per interaction type
InteractionBodies ==
  { Body("readerr", ""), Body("form_nopayload", ""), Body("form_badjson", "") }
  \cup { Body("interaction", t) : t \in InteractionTypes }

\* a callback whose inner payload is looked at by predicates
CallbackBody(kind, typ, data) == [kind |-> kind, arg |-> typ, data |-> data]

Texts == { <<"hello", "world">>, <<"bye">> }

ChannelIDs == {"C1", "C2"}

\* *slackevents.MessageEvent as decoded by ParseEvent for the type "message"
MessageEvents ==
  { [dtype |-> "MessageEvent", text |-> t, channel |-> c] : t \in Texts, c \in ChannelIDs }

\* inner event data of another concrete type than *slackevents.MessageEvent
\* (e.InnerEvent.Data is an interface{}; a payload that every predicate of
\* the model would match)
OtherEvents ==
  { [dtype |-> "AppMentionEvent", text |-> <<"hello", "world">>, channel |-> "C1"] }

\* slack.InteractionCallback as decoded from the payload field
InteractionCallbacks ==
  { [dtype |-> "InteractionCallback", callback_id |-> i, channel |-> c] :
      i \in {"cb1", "cb2"}, c \in ChannelIDs }

BlockIDs == {"B1", "B2"}

ActionIDs == {"A1", "A2"}

\* *slack.BlockAction, by the two fields that FindBlockAction reads
BlockActions == [block_id : BlockIDs, action_id : ActionIDs]

\* callback.ActionCallback.BlockActions: up to MaxBlockActions entries
BlockActionLists == UNION { [1..n -> BlockActions] : n \in 0..MaxBlockActions }

\* slack.InteractionCallback of the type block_actions
BlockActionCallbacks ==
  { [dtype |-> "InteractionCallback", callback_id |-> "cb1", channel |-> "C1",
     block_actions |-> as] : as \in BlockActionLists }

\* HMAC-SHA256(key, msg), kept symbolic: equal exactly for equal key and message
Hmac(key, msg) == [key |-> key, msg |-> msg]

\* the signed base string "v0:" + timestamp + ":" + body
BaseString(ts, body) == <<"v0:", ts, ":", body>>

\* values of the X-Slack-Signature header: absent, not of the form
\* v0=<hex>, or "v0=" + hex(mac)
NoSignature == [form |-> "absent", mac |-> Hmac("", <<>>)]
WrongHeader == [form |-> "nonhex", mac |-> Hmac("", <<>>)]
V0Hex(mac) == [form |-> "v0hex", mac |-> mac]

\* slip: the version prefix "v0:" is left out of the signed string
AddSignatureNoVersion(key, body, ts) == V0Hex(Hmac(key, <<ts, ":", body>>))

\* testutils.AddSignature: the signature header for key, body and timestamp
AddSignature(key, body, ts) == V0Hex(Hmac(key, BaseString(ts, body)))

OtherTimestamp == "4000"
OtherBody == Body("other", "")

ContentTypes == {"application/x-www-form-urlencoded", "application/json"}

Request(ts, sig, ctype, body) == [ts |-> ts, sig |-> sig, ctype |-> ctype, body |-> body]

NoRequest == Request("", NoSignature, "", Body("none", ""))

\* the signature headers tried for a request with timestamp header ts and
\* body b: none, a malformed one, the signature of (S1, b, ts), and the
\* signatures that differ from it in the key, the body or the timestamp
SignatureHeaders(ts, b) ==
  { NoSignature, WrongHeader,
    AddSignature("S1", b, ts), AddSignature("S2", b, ts),
    AddSignature("S1", OtherBody, ts), AddSignature("S1", b, OtherTimestamp) }

----------------------------------------------------------------------------
(* Dispatch: the state threaded through one request is [w, calls] *)

Begin == [w |-> NewRecorder, calls |-> <<>>]

\* ctx := req.Context(): the dispatch goes on with the context of the request
\* (of the requests that are sent with one)
WithContext(st, rq) == IF "ctx" \in DOMAIN rq THEN st @@ [ctx |-> rq.ctx] ELSE st

\* an invocation; when the caller holds a context it is the ctx argument
Invoked(st, c) ==
  [st EXCEPT !.calls = Append(@, IF "ctx" \in DOMAIN st
                                   THEN c @@ [ctx |-> st.ctx] ELSE c)]

\* Router.respondWithError (both Routers)
respondWithError(r, st, err) ==
  [st EXCEPT !.w = RespondWithError(@, err, r.verboseResponse)]

\* a predicate of the handler registered at position idx was evaluated
Evaluated(typ, idx, p, matched) ==
  [slot |-> "predicate", type |-> typ, idx |-> idx, pred |-> p, matched |-> matched]

RECURSIVE HandleEventAnnotates(_, _, _, _, _)
\* slip: a predicate that matched hands on the error of the next handler
\* with a message added
HandleEventAnnotates(h, e, slot, idx, st) ==
  CASE h.fn = "wrap" ->
         LET m == Matches(h.pred, e.data)
             st1 == Invoked(st, Evaluated(e.arg, idx, h.pred, m))
             next == HandleEventAnnotates(h.next, e, slot, idx, st1)
         IN IF ~m THEN [err |-> NotInterested, st |-> st1]
            ELSE IF next.err = Nil THEN next
            ELSE [next EXCEPT !.err = [@ EXCEPT !.wraps = @ + 1]]
    [] h.fn = "typed" ->
         IF e.data.dtype /= h.want
           THEN [err |-> HttpError(StatusBadRequest), st |-> st]
           ELSE HandleEventAnnotates(h.next, e, slot, idx, st)
    [] OTHER -> [err |-> h.res, st |-> Invoked(st, Call(slot, e.arg, idx, h.res))]

RECURSIVE HandleEventTypeMismatchDeclines(_, _, _, _, _)
\* slip: a typed registration declines a payload of another concrete type
HandleEventTypeMismatchDeclines(h, e, slot, idx, st) ==
  CASE h.fn = "wrap" ->
         LET m == Matches(h.pred, e.data)
             st1 == Invoked(st, Evaluated(e.arg, idx, h.pred, m))
         IN IF ~m THEN [err |-> NotInterested, st |-> st1]
            ELSE HandleEventTypeMismatchDeclines(h.next, e, slot, idx, st1)
    [] h.fn = "typed" ->
         IF e.data.dtype /= h.want
           THEN [err |-> NotInterested, st |-> st]
           ELSE HandleEventTypeMismatchDeclines(h.next, e, slot, idx, st)
    [] OTHER -> [err |-> h.res, st |-> Invoked(st, Call(slot, e.arg, idx, h.res))]

RECURSIVE HandleEvent(_, _, _, _, _)
\* h.HandleEventsAPIEvent(ctx, e) / h.HandleInteraction(callback): [err, st].
\* e is the request body: its arg is the type, its data the inner payload.
HandleEvent(h, e, slot, idx, st) ==
  CASE h.fn = "wrap" ->
         LET m == Matches(h.pred, e.data)
             st1 == Invoked(st, Evaluated(e.arg, idx, h.pred, m))
         IN IF ~m THEN [err |-> NotInterested, st |-> st1]
            ELSE HandleEvent(h.next, e, slot, idx, st1)
    [] h.fn = "typed" ->
         IF e.data.dtype /= h.want
           THEN [err |-> HttpError(StatusBadRequest), st |-> st]
           ELSE HandleEvent(h.next, e, slot, idx, st)
    [] OTHER -> [err |-> h.res, st |-> Invoked(st, Call(slot, e.arg, idx, h.res))]

\* Router.handleFallback (both Routers): [err, st]
handleFallback(r, e, st) ==
  IF r.fallbackHandler = NilHandler
    THEN [err |-> NotInterested, st |-> st]
    ELSE HandleEvent(r.fallbackHandler, e, "fallback", 0, st)

RECURSIVE RangeHandlersNoBreak(_, _, _, _, _)
\* slip: the loop without its break
RangeHandlersNoBreak(handlers, i, e, err, st) ==
  IF i > Len(handlers) THEN [err |-> err, st |-> st]
  ELSE LET called == HandleEvent(handlers[i], e, "handler", i, st)
       IN RangeHandlersNoBreak(handlers, i + 1, e, called.err, called.st)

RECURSIVE RangeHandlers(_, _, _, _, _)
\* for _, h := range handlers { err = h.Handle...; if !errors.Is(err, NotInterested) { break } }
RangeHandlers(handlers, i, e, err, st) ==
  IF i > Len(handlers) THEN [err |-> err, st |-> st]
  ELSE LET called == HandleEvent(handlers[i], e, "handler", i, st)
       IN IF ~ErrorsIs(called.err, NotInterested)
            THEN called
            ELSE RangeHandlers(handlers, i + 1, e, called.err, called.st)

\* slip: the fallback is consulted only when no list is registered for the type
handleCallbackEventFallbackOnMiss(r, e, st) ==
  LET ok == e.arg \in DOMAIN r.callbackHandlers
      looped == IF ok THEN RangeHandlers(r.callbackHandlers[e.arg], 1, e, NotInterested, st)
                ELSE [err |-> NotInterested, st |-> st]
      final == IF ~ok THEN handleFallback(r, e, looped.st) ELSE looped
  IN IF final.err /= Nil /\ ~ErrorsIs(final.err, NotInterested)
       THEN respondWithError(r, final.st, final.err)
       ELSE [final.st EXCEPT !.w = WriteHeader(@, StatusOK)]

\* slip: NotInterested compared with == instead of errors.Is
handleCallbackEventEqual(r, e, st) ==
  LET ok == e.arg \in DOMAIN r.callbackHandlers
      looped == IF ok THEN RangeHandlers(r.callbackHandlers[e.arg], 1, e, NotInterested, st)
                ELSE [err |-> NotInterested, st |-> st]
      final == IF looped.err = NotInterested
                 THEN handleFallback(r, e, looped.st)
                 ELSE looped
  IN IF final.err /= Nil /\ final.err /= NotInterested
       THEN respondWithError(r, final.st, final.err)
       ELSE [final.st EXCEPT !.w = WriteHeader(@, StatusOK)]

\* slip: the final result is tested against nil only, so a decline is an error
handleCallbackEventDeclineIsError(r, e, st) ==
  LET ok == e.arg \in DOMAIN r.callbackHandlers
      looped == IF ok THEN RangeHandlers(r.callbackHandlers[e.arg], 1, e, NotInterested, st)
                ELSE [err |-> NotInterested, st |-> st]
      final == IF ErrorsIs(looped.err, NotInterested)
                 THEN handleFallback(r, e, looped.st)
                 ELSE looped
  IN IF final.err /= Nil
       THEN respondWithError(r, final.st, final.err)
       ELSE [final.st EXCEPT !.w = WriteHeader(@, StatusOK)]

\* slip: after the handlers of the type of the event, those of another type
\* are tried
handleCallbackEventAnyType(r, e, st) ==
  LET ok == e.arg \in DOMAIN r.callbackHandlers
      own == IF ok THEN r.callbackHandlers[e.arg] ELSE <<>>
      others == DOMAIN r.callbackHandlers \ {e.arg}
      all == IF others = {} THEN own
             ELSE own \o r.callbackHandlers[CHOOSE t \in others : TRUE]
      looped == RangeHandlers(all, 1, e, NotInterested, st)
      final == IF ErrorsIs(looped.err, NotInterested)
                 THEN handleFallback(r, e, looped.st)
                 ELSE looped
  IN IF final.err /= Nil /\ ~ErrorsIs(final.err, NotInterested)
       THEN respondWithError(r, final.st, final.err)
       ELSE [final.st EXCEPT !.w = WriteHeader(@, StatusOK)]

\* Router.handleCallbackEvent
handleCallbackEvent(r, e, st) ==
  LET ok == e.arg \in DOMAIN r.callbackHandlers
      looped == IF ok THEN RangeHandlers(r.callbackHandlers[e.arg], 1, e, NotInterested, st)
                ELSE [err |-> NotInterested, st |-> st]
      final == IF ErrorsIs(looped.err, NotInterested)
                 THEN handleFallback(r, e, looped.st)
                 ELSE looped
  IN IF final.err /= Nil /\ ~ErrorsIs(final.err, NotInterested)
       THEN respondWithError(r, final.st, final.err)
       ELSE [final.st EXCEPT !.w = WriteHeader(@, StatusOK)]

\* slip: the Fallback is asked only when no list is registered for the type
handleInteractionCallbackFallbackOnMiss(r, e, st) ==
  LET ok == e.arg \in DOMAIN r.callbackHandlers
      final == IF ok THEN RangeHandlers(r.callbackHandlers[e.arg], 1, e, NotInterested, st)
               ELSE handleFallback(r, e, st)
  IN IF final.err /= Nil /\ ~ErrorsIs(final.err, NotInterested)
       THEN respondWithError(r, final.st, final.err)
       ELSE [final.st EXCEPT !.w = WriteHeader(@, StatusOK)]

\* interactionrouter.Router.handleInteractionCallback
handleInteractionCallback(r, e, st) ==
  LET ok == e.arg \in DOMAIN r.callbackHandlers
      looped == IF ok THEN RangeHandlers(r.callbackHandlers[e.arg], 1, e, NotInterested, st)
                ELSE [err |-> NotInterested, st |-> st]
      final == IF ErrorsIs(looped.err, NotInterested)
                 THEN handleFallback(r, e, looped.st)
                 ELSE looped
  IN IF final.err /= Nil /\ ~ErrorsIs(final.err, NotInterested)
       THEN respondWithError(r, final.st, final.err)
       ELSE [final.st EXCEPT !.w = WriteHeader(@, StatusOK)]

\* the JSON body {"challenge": c} written by json.Encoder.Encode
ChallengeResponse(c) == [kind |-> "challenge", prefix |-> c, err |-> Nil]

\* the plain-text body "OK"
OKBody == [kind |-> "OK", prefix |-> "", err |-> Nil]

\* slip: no return after the error response, the challenge is written as well
handleURLVerificationNoReturn(r, body, st) ==
  LET ok == body.kind = "url_verification"
      h == r.urlVerificationHandler
      resp == IF h = DefaultHandler THEN ChallengeResponse(body.arg)
              ELSE ChallengeResponse("CUSTOM")
      st1 == Invoked(st, Call("urlVerification", "", 0, h.res))
      st2 == IF h.res /= Nil THEN respondWithError(r, st1, h.res) ELSE st1
  IN IF ~ok THEN respondWithError(r, st, OtherError)
     ELSE [st2 EXCEPT !.w = Write(@, resp)]

\* Router.handleURLVerification; the default handler echoes the challenge, a
\* handler set by the caller answers "CUSTOM" or fails with its error
handleURLVerification(r, body, st) ==
  LET ok == body.kind = "url_verification"
      h == r.urlVerificationHandler
      resp == IF h = DefaultHandler THEN ChallengeResponse(body.arg)
              ELSE ChallengeResponse("CUSTOM")
      st1 == Invoked(st, Call("urlVerification", "", 0, h.res))
  IN IF ~ok THEN respondWithError(r, st, OtherError)
     ELSE IF h.res /= Nil THEN respondWithError(r, st1, h.res)
     ELSE [st1 EXCEPT !.w = Write(@, resp)]

\* slip: no return after the error response, "OK" is written as well
handleAppRateLimitedNoReturn(r, st) ==
  LET err == r.appRateLimitedHandler.res
      st1 == Invoked(st, Call("appRateLimited", "", 0, err))
      st2 == IF err /= Nil THEN respondWithError(r, st1, err) ELSE st1
  IN [st2 EXCEPT !.w = Write(@, OKBody)]

\* slip: the rate-limit envelope is also offered to the fallback handler
handleAppRateLimitedAsksFallback(r, st) ==
  LET err == r.appRateLimitedHandler.res
      st1 == Invoked(st, Call("appRateLimited", "", 0, err))
      fell == handleFallback(r, Body("app_rate_limited", ""), st1)
  IN IF err /= Nil THEN respondWithError(r, fell.st, err)
     ELSE [fell.st EXCEPT !.w = Write(@, OKBody)]

\* Router.handleAppRateLimited
handleAppRateLimited(r, st) ==
  LET err == r.appRateLimitedHandler.res
      st1 == Invoked(st, Call("appRateLimited", "", 0, err))
  IN IF err /= Nil THEN respondWithError(r, st1, err)
     ELSE [st1 EXCEPT !.w = Write(@, OKBody)]

\* slip: an envelope of an unknown outer type is dispatched like a callback
serveHTTPUnknownAsCallback(r, rq, st0) ==
  LET st == Invoked(st0, Call("serveHTTP", "", 0, Nil))
      body == rq.body
  IN IF body.kind = "readerr" THEN respondWithError(r, st, OtherError)
     ELSE IF body.kind = "malformed"
       THEN respondWithError(r, st, WithMessage(HttpError(StatusBadRequest)))
     ELSE CASE body.kind = "url_verification" -> handleURLVerification(r, body, st)
            [] body.kind = "event_callback" -> handleCallbackEvent(r, body, st)
            [] body.kind = "app_rate_limited" ->
                 LET st1 == IF body.arg /= "decodes"
                              THEN respondWithError(r, st, WithMessage(OtherError))
                              ELSE st
                 IN handleAppRateLimited(r, st1)
            [] OTHER -> handleCallbackEvent(r, body, st)

\* Router.serveHTTP of the events Router. The app_rate_limited case has no
\* return after its respondWithError, so handleAppRateLimited runs either way.
serveHTTP(r, rq, st0) ==
  LET st == WithContext(Invoked(st0, Call("serveHTTP", "", 0, Nil)), rq)
      body == rq.body
  IN IF body.kind = "readerr" THEN respondWithError(r, st, OtherError)
     ELSE IF body.kind = "malformed"
       THEN respondWithError(r, st, WithMessage(HttpError(StatusBadRequest)))
     ELSE CASE body.kind = "url_verification" -> handleURLVerification(r, body, st)
            [] body.kind = "event_callback" -> handleCallbackEvent(r, body, st)
            [] body.kind = "app_rate_limited" ->
                 LET st1 == IF body.arg /= "decodes"
                              THEN respondWithError(r, st, WithMessage(OtherError))
                              ELSE st
                 IN handleAppRateLimited(r, st1)
            [] OTHER ->
                 respondWithError(r, st, WithMessage(HttpError(StatusBadRequest)))

\* req.FormValue("payload"): "" when the form cannot be read or has no such field
FormValue(body) ==
  CASE body.kind = "form_badjson" -> "not json"
    [] body.kind = "interaction" -> "json"
    [] OTHER -> ""

\* slip: the Content-Type is not checked
InteractionServeHTTPAnyContentType(r, rq, st0) ==
  LET st == Invoked(st0, Call("serveHTTP", "", 0, Nil))
      payload == FormValue(rq.body)
  IN IF payload = ""
       THEN respondWithError(r, st, WithMessage(HttpError(StatusBadRequest)))
     ELSE IF payload = "not json"
       THEN respondWithError(r, st, OtherError)
     ELSE handleInteractionCallback(r, rq.body, st)

\* interactionrouter.Router.serveHTTP
InteractionServeHTTP(r, rq, st0) ==
  LET st == Invoked(st0, Call("serveHTTP", "", 0, Nil))
      payload == FormValue(rq.body)
  IN IF rq.ctype /= "application/x-www-form-urlencoded"
       THEN respondWithError(r, st, WithMessage(HttpError(StatusBadRequest)))
     ELSE IF payload = ""
       THEN respondWithError(r, st, WithMessage(HttpError(StatusBadRequest)))
     ELSE IF payload = "not json"
       THEN respondWithError(r, st, OtherError)
     ELSE handleInteractionCallback(r, rq.body, st)

\* the http.Handler that the Middleware wraps: http.HandlerFunc(r.serveHTTP)
Handler(r, rq, st) ==
  IF r.kind = "events" THEN serveHTTP(r, rq, st) ELSE InteractionServeHTTP(r, rq, st)

----------------------------------------------------------------------------
(* Signature verification *)

VerifierError(name) == [base |-> name, code |-> 0, wraps |-> 0]

ErrMissingHeaders == VerifierError("ErrMissingHeaders")
ErrMalformedSignature == VerifierError("ErrMalformedSignature")
ErrMalformedTimestamp == VerifierError("ErrMalformedTimestamp")
ErrExpiredTimestamp == VerifierError("ErrExpiredTimestamp")
ErrSignatureMismatch == VerifierError("ErrSignatureMismatch")

Abs(x) == IF x < 0 THEN -x ELSE x

\* slack.NewSecretsVerifier(header, secret): checks the headers and the
\* timestamp, and starts the HMAC over "v0:" + timestamp + ":"
NewSecretsVerifier(rq, secret) ==
  LET noVerifier == [signature |-> Hmac("", <<>>), key |-> "", ts |-> ""]
      t == ParseInt(rq.ts)
  IN IF rq.sig.form = "absent" \/ rq.ts = ""
       THEN [err |-> ErrMissingHeaders, verifier |-> noVerifier]
     ELSE IF rq.sig.form /= "v0hex"
       THEN [err |-> ErrMalformedSignature, verifier |-> noVerifier]
     ELSE IF ~t.ok
       THEN [err |-> ErrMalformedTimestamp, verifier |-> noVerifier]
     ELSE IF Abs(Now - t.v) > MaxAge
       THEN [err |-> ErrExpiredTimestamp, verifier |-> noVerifier]
     ELSE [err |-> Nil,
           verifier |-> [signature |-> rq.sig.mac, key |-> secret, ts |-> rq.ts]]

\* SecretsVerifier.Ensure after the body went through the tee: compares the
\* HMAC of the base string with the claimed signature
Ensure(verifier, body) ==
  IF Hmac(verifier.key, BaseString(verifier.ts, body)) = verifier.signature
    THEN Nil ELSE ErrSignatureMismatch

\* fmt.Fprintf(w, prefix + ": %s", err.Error()) when VerboseResponse is set
Fprintf(r, rw, prefix, err) ==
  IF r.verboseResponse THEN Write(rw, ErrorText(prefix, err)) ELSE rw

\* slip: the wrapped handler runs although Ensure failed
MiddlewareNoEnsure(r, rq, st) ==
  LET v == NewSecretsVerifier(rq, r.signingSecret) IN
  IF v.err /= Nil
    THEN [st EXCEPT !.w = Fprintf(r, WriteHeader(@, StatusBadRequest),
                                  "failed to initialize verifier", v.err)]
  ELSE IF rq.body.kind = "readerr"
    THEN [st EXCEPT !.w = Fprintf(r, WriteHeader(@, StatusInternalServerError),
                                  "failed to read response", OtherError)]
  ELSE Handler(r, rq, st)

\* slip: a failed Ensure is answered like a failed initialisation, with 400
MiddlewareMismatchBadRequest(r, rq, st) ==
  LET v == NewSecretsVerifier(rq, r.signingSecret) IN
  IF v.err /= Nil
    THEN [st EXCEPT !.w = Fprintf(r, WriteHeader(@, StatusBadRequest),
                                  "failed to initialize verifier", v.err)]
  ELSE IF rq.body.kind = "readerr"
    THEN [st EXCEPT !.w = Fprintf(r, WriteHeader(@, StatusInternalServerError),
                                  "failed to read response", OtherError)]
  ELSE IF Ensure(v.verifier, rq.body) /= Nil
    THEN [st EXCEPT !.w = Fprintf(r, WriteHeader(@, StatusBadRequest),
                                  "verification failed", Ensure(v.verifier, rq.body))]
  ELSE Handler(r, rq, st)

\* slip: an expired timestamp is not treated as an initialisation error, so
\* the request goes on to the signature comparison
MiddlewareIgnoresExpired(r, rq, st) ==
  LET v == NewSecretsVerifier(rq, r.signingSecret)
      verifier == [signature |-> rq.sig.mac, key |-> r.signingSecret, ts |-> rq.ts]
  IN
  IF v.err /= Nil /\ v.err /= ErrExpiredTimestamp
    THEN [st EXCEPT !.w = Fprintf(r, WriteHeader(@, StatusBadRequest),
                                  "failed to initialize verifier", v.err)]
  ELSE IF rq.body.kind = "readerr"
    THEN [st EXCEPT !.w = Fprintf(r, WriteHeader(@, StatusInternalServerError),
                                  "failed to read response", OtherError)]
  ELSE IF Ensure(verifier, rq.body) /= Nil
    THEN [st EXCEPT !.w = Fprintf(r, WriteHeader(@, StatusUnauthorized),
                                  "verification failed", Ensure(verifier, rq.body))]
  ELSE Handler(r, rq, st)

\* signature.Middleware.ServeHTTP, the version with the field SigningSecret
\* that eventrouter.New builds
MiddlewareServeHTTP(r, rq, st) ==
  LET v == NewSecretsVerifier(rq, r.signingSecret) IN
  IF v.err /= Nil
    THEN [st EXCEPT !.w = Fprintf(r, WriteHeader(@, StatusBadRequest),
                                  "failed to initialize verifier", v.err)]
  ELSE IF rq.body.kind = "readerr"
    THEN [st EXCEPT !.w = Fprintf(r, WriteHeader(@, StatusInternalServerError),
                                  "failed to read response", OtherError)]
  ELSE IF Ensure(v.verifier, rq.body) /= Nil
    THEN [st EXCEPT !.w = Fprintf(r, WriteHeader(@, StatusUnauthorized),
                                  "verification failed", Ensure(v.verifier, rq.body))]
  ELSE Handler(r, rq, st)

\* signature.Middleware.ServeHTTP, the version with the field Secret that
\* interactionrouter.New builds
MiddlewareSecretServeHTTP(r, rq, st) ==
  LET v == NewSecretsVerifier(rq, r.signingSecret) IN
  IF v.err /= Nil
    THEN [st EXCEPT !.w = Fprintf(r,
                            IF ErrorsIs(v.err, ErrExpiredTimestamp)
                              THEN WriteHeader(@, StatusUnauthorized)
                              ELSE WriteHeader(@, StatusInternalServerError),
                            "failed to initialize verifier", v.err)]
  ELSE IF rq.body.kind = "readerr"
    THEN [st EXCEPT !.w = Fprintf(r, WriteHeader(@, StatusInternalServerError),
                                  "failed to read response", OtherError)]
  ELSE IF Ensure(v.verifier, rq.body) /= Nil
    THEN [st EXCEPT !.w = Fprintf(r, WriteHeader(@, StatusUnauthorized),
                                  "verification failed", Ensure(v.verifier, rq.body))]
  ELSE Handler(r, rq, st)

(* The Middleware at the level of the reads of the body. A request that    *)
(* has the field stream carries its body as the chunks that the Reads of    *)
(* the transport return, followed by io.EOF or by an error.                 *)

\* the text of an envelope or payload, by its tokens
Encode(body) == << "{", body.kind, body.arg, "}" >>

\* slackevents.ParseEvent / json.Unmarshal on the text read by the handler
Decode(bytes) ==
  IF Len(bytes) = 4 /\ bytes[1] = "{" /\ bytes[4] = "}"
    THEN Body(bytes[2], bytes[3])
    ELSE Body("malformed", "")

RECURSIVE SplitFrom(_, _, _, _)
\* bytes[from..] cut after the positions in cuts
SplitFrom(bytes, cuts, from, k) ==
  IF k >= Len(bytes) THEN << SubSeq(bytes, from, Len(bytes)) >>
  ELSE IF k \in cuts
    THEN << SubSeq(bytes, from, k) >> \o SplitFrom(bytes, cuts, k + 1, k + 1)
  ELSE SplitFrom(bytes, cuts, from, k + 1)

\* the ways in which the transport may deliver bytes: in up to MaxChunks
\* non-empty chunks
Chunkings(bytes) ==
  { SplitFrom(bytes, cuts, 1, 1) :
      cuts \in { c \in SUBSET (1..(Len(bytes) - 1)) : Cardinality(c) < MaxChunks } }

\* r.Body: the chunks still to be read, whether the Read after the last one
\* fails, and whether the reader is the transport or a buffer in memory
Stream(chunks, fails, source) == [chunks |-> chunks, fails |-> fails, source |-> source]

\* ioutil.NopCloser(bytes.NewReader(body))
NewReader(body) == Stream(<< body >>, FALSE, "buffer")

\* one step of the Middleware, as recorded in calls
Step(name, source) == [slot |-> "middleware", step |-> name, source |-> source]

RECURSIVE ReadAllTeeFrom(_, _, _)
\* ioutil.ReadAll(io.TeeReader(r.Body, &verifier)) from the chunk k on: every
\* Read of the stream returns the next chunk, the TeeReader writes it to the
\* verifier, ReadAll appends it to its buffer; the Read after the last chunk
\* ends the loop with io.EOF (no error) or with an error
ReadAllTeeFrom(stream, k, acc) ==
  IF k > Len(stream.chunks)
    THEN [acc EXCEPT !.err = IF stream.fails THEN OtherError ELSE Nil]
  ELSE ReadAllTeeFrom(stream, k + 1,
         [acc EXCEPT !.body = @ \o stream.chunks[k],
                     !.hashed = @ \o stream.chunks[k],
                     !.st = Invoked(@, Step("Read", stream.source))])

\* body, err := ioutil.ReadAll(tee): [body, hashed, err, st]
ReadAllTee(stream, st) ==
  ReadAllTeeFrom(stream, 1, [body |-> <<>>, hashed |-> <<>>, err |-> Nil, st |-> st])

\* ioutil.ReadAll(req.Body) in the wrapped handler
ReadAll(stream, st) == ReadAllTee(stream, st)

\* the wrapped handler on the request whose Body is stream: it reads the
\* body and parses what it read (its Reads are recorded before its entry)
HandlerOnStream(r, rq, stream, st) ==
  LET rd == ReadAll(stream, st)
  IN Handler(r, [rq EXCEPT !.stream = stream,
                           !.body = IF rd.err /= Nil THEN Body("readerr", "")
                                    ELSE Decode(rd.body)],
             rd.st)

\* slip: r.Body is not replaced, the wrapped handler gets the drained stream
MiddlewareStreamNoRestore(r, rq, st) ==
  LET v == NewSecretsVerifier(rq, r.signingSecret)
      st1 == Invoked(st, Step("NewSecretsVerifier", "header"))
      rd == ReadAllTee(rq.stream, st1)
      st2 == Invoked(rd.st, Step("Ensure", "verifier"))
  IN IF v.err /= Nil
       THEN [st1 EXCEPT !.w = Fprintf(r,
               IF r.httpHandler = "Middleware.SigningSecret"
                 THEN WriteHeader(@, StatusBadRequest)
               ELSE IF ErrorsIs(v.err, ErrExpiredTimestamp)
                 THEN WriteHeader(@, StatusUnauthorized)
               ELSE WriteHeader(@, StatusInternalServerError),
               "failed to initialize verifier", v.err)]
     ELSE IF rd.err /= Nil
       THEN [rd.st EXCEPT !.w = Fprintf(r, WriteHeader(@, StatusInternalServerError),
                                      "failed to read response", rd.err)]
     ELSE IF Hmac(v.verifier.key, BaseString(v.verifier.ts, rd.hashed)) /= v.verifier.signature
       THEN [st2 EXCEPT !.w = Fprintf(r, WriteHeader(@, StatusUnauthorized),
                                   "verification failed", ErrSignatureMismatch)]
     ELSE HandlerOnStream(r, rq, Stream(<<>>, FALSE, "transport"), st2)

\* slip: the signature is compared before the headers and the clock are
\* looked at, and also when the body could not be read
MiddlewareStreamEnsuresFirst(r, rq, st) ==
  LET v == NewSecretsVerifier(rq, r.signingSecret)
      rd == ReadAllTee(rq.stream, st)
      st1 == Invoked(rd.st, Step("Ensure", "verifier"))
      st2 == Invoked(st1, Step("NewSecretsVerifier", "header"))
      claimed == IF v.err = Nil THEN v.verifier.signature ELSE rq.sig.mac
  IN IF Hmac(r.signingSecret, BaseString(rq.ts, rd.hashed)) /= claimed
       THEN [st1 EXCEPT !.w = Fprintf(r, WriteHeader(@, StatusUnauthorized),
                                   "verification failed", ErrSignatureMismatch)]
     ELSE IF v.err /= Nil
       THEN [st2 EXCEPT !.w = Fprintf(r, WriteHeader(@, StatusBadRequest),
                                   "failed to initialize verifier", v.err)]
     ELSE IF rd.err /= Nil
       THEN [st2 EXCEPT !.w = Fprintf(r, WriteHeader(@, StatusInternalServerError),
                                   "failed to read response", rd.err)]
     ELSE HandlerOnStream(r, rq, NewReader(rd.body), st2)

\* Middleware.ServeHTTP (both versions) on a request with a stream
MiddlewareStreamServeHTTP(r, rq, st) ==
  LET v == NewSecretsVerifier(rq, r.signingSecret)
      st1 == Invoked(st, Step("NewSecretsVerifier", "header"))
      rd == ReadAllTee(rq.stream, st1)
      st2 == Invoked(rd.st, Step("Ensure", "verifier"))
  IN IF v.err /= Nil
       THEN [st1 EXCEPT !.w = Fprintf(r,
               IF r.httpHandler = "Middleware.SigningSecret"
                 THEN WriteHeader(@, StatusBadRequest)
               ELSE IF ErrorsIs(v.err, ErrExpiredTimestamp)
                 THEN WriteHeader(@, StatusUnauthorized)
               ELSE WriteHeader(@, StatusInternalServerError),
               "failed to initialize verifier", v.err)]
     ELSE IF rd.err /= Nil
       THEN [rd.st EXCEPT !.w = Fprintf(r, WriteHeader(@, StatusInternalServerError),
                                      "failed to read response", rd.err)]
     ELSE IF Hmac(v.verifier.key, BaseString(v.verifier.ts, rd.hashed)) /= v.verifier.signature
       THEN [st2 EXCEPT !.w = Fprintf(r, WriteHeader(@, StatusUnauthorized),
                                   "verification failed", ErrSignatureMismatch)]
     ELSE HandlerOnStream(r, rq, NewReader(rd.body), st2)

\* Router.ServeHTTP (both Routers): router.httpHandler.ServeHTTP(w, req)
RouterServeHTTP(r, rq) ==
  CASE "stream" \in DOMAIN rq /\ r.httpHandler /= "serveHTTP" ->
         MiddlewareStreamServeHTTP(r, rq, Begin)
    [] "stream" \notin DOMAIN rq /\ r.httpHandler = "Middleware.SigningSecret" ->
         MiddlewareServeHTTP(r, rq, Begin)
    [] "stream" \notin DOMAIN rq /\ r.httpHandler = "Middleware.Secret" ->
         MiddlewareSecretServeHTTP(r, rq, Begin)
    [] OTHER -> Handler(r, rq, Begin)

----------------------------------------------------------------------------
(* Actions *)

\* the slots of the Router that a Set* method assigns
Slots == {"fallback", "urlVerification", "appRateLimited"}

\* no call of the Set* method yet
NotPassed == [called |-> FALSE, h |-> NilHandler, overwrote |-> FALSE]

\* the record of the calls after one more call with the handler h
Pass(slot, h) ==
  [passed EXCEPT ![slot] =
     [called |-> TRUE, h |-> h, overwrote |-> @.overwrote \/ (@.called /\ @.h /= h)]]

\* slip: the two Routers hold the same map, as with a package-level registry
UntouchedSharesRegistry(other, changed) ==
  IF other = NoRouter \/ changed = NoRouter THEN other
  ELSE [other EXCEPT !.callbackHandlers = changed.callbackHandlers]

\* the Router that a method was not called on, after the call on the other
\* one: New makes the struct and its map per call, On and the Set* methods
\* assign through their receiver, and the package has no variable
Untouched(other, changed) == other

\* the goroutines that serve requests or register handlers at the same time
Goroutines == {1, 2}

\* a goroutine that is in no call
Idle == [pc |-> "idle"]

\* the other goroutine is inside its call
Overlapping(calling, g) ==
  \E o \in Goroutines \ {g} : calling[o].pc \notin {"idle", "done"}

Init ==
  /\ router = NoRouter
  /\ peer = NoRouter
  /\ newErr = NoError
  /\ newOptions = NotCalled
  /\ req = NoRequest
  /\ w = NewRecorder
  /\ calls = <<>>
  /\ passed = [s \in Slots |-> NotPassed]
  /\ inflight = [g \in Goroutines |-> Idle]
  /\ pending = [g \in Goroutines |-> Idle]

\* The Router is configured before it serves (see the README and the
\* examples): the configuring actions are taken while no request was served
\* or is being served.
Configuring == req = NoRequest /\ \A g \in Goroutines : inflight[g] = Idle

\* r, err := eventrouter.New(opts...) or interactionrouter.New(opts...)
CallNew(kinds, lists) ==
  /\ newOptions = NotCalled
  /\ \E opts \in lists, kind \in kinds :
       LET res == IF kind = "events" THEN New(opts) ELSE InteractionNew(opts)
       IN /\ router' = res.router
          /\ newErr' = res.err
          /\ newOptions' = opts
  /\ peer' = Untouched(peer, router')
  /\ UNCHANGED <<req, w, calls, passed, inflight, pending>>

TypesOf(r) == IF r.kind = "events" THEN EventTypes ELSE InteractionTypes

\* r.On(eventType, h) with a handler that returns one of results, at most
\* max handlers in all
CallOn(max, results) ==
  /\ router /= NoRouter
  /\ Configuring
  /\ NumHandlers(router) < max
  /\ \E t \in TypesOf(router), res \in results :
       router' = On(router, t, HandlerFunc(res))
  /\ peer' = Untouched(peer, router')
  /\ UNCHANGED <<newErr, newOptions, req, w, calls, passed, inflight, pending>>

\* the predicates given at registration
PredicatesOf(kind) ==
  IF kind = "events" THEN { TextRegexp("hello"), Channel("C1") }
  ELSE { CallbackID("cb1"), Channel("C1") }

PredicateLists(kind, n) == UNION { [1..k -> PredicatesOf(kind)] : k \in 0..n }

\* the handler that a registration with predicates puts in the registry
Registration(kind, h, preds) ==
  IF kind = "events" THEN TypedHandler("MessageEvent", Build(h, preds))
  ELSE Build(h, preds)

\* r.OnMessage(h, preds...) on the events Router, r.On(shortcut, h, preds...)
\* on the interaction Router
CallOnWithPredicates(max, n, results) ==
  /\ router /= NoRouter
  /\ Configuring
  /\ NumHandlers(router) < max
  /\ \E res \in results, preds \in PredicateLists(router.kind, n) :
       router' = IF router.kind = "events"
                   THEN OnMessage(router, HandlerFunc(res), preds)
                   ELSE InteractionOn(router, "shortcut", HandlerFunc(res), preds)
  /\ peer' = Untouched(peer, router')
  /\ UNCHANGED <<newErr, newOptions, req, w, calls, passed, inflight, pending>>

\* r2, err := eventrouter.New(opts...) for the second Router
CallNewPeer(lists) ==
  /\ peer = NoRouter
  /\ Configuring
  /\ \E opts \in lists :
       /\ New(opts).router /= NoRouter
       /\ peer' = New(opts).router
  /\ router' = Untouched(router, peer')
  /\ UNCHANGED <<newErr, newOptions, req, w, calls, passed, inflight, pending>>

\* r2.On(eventType, h) on the second Router
CallOnPeer(max, results) ==
  /\ peer /= NoRouter
  /\ Configuring
  /\ NumHandlers(peer) < max
  /\ \E t \in TypesOf(peer), res \in results :
       peer' = On(peer, t, HandlerFunc(res))
  /\ router' = Untouched(router, peer')
  /\ UNCHANGED <<newErr, newOptions, req, w, calls, passed, inflight, pending>>

\* r2.SetFallback(h) on the second Router
CallSetFallbackPeer(results) ==
  /\ peer /= NoRouter
  /\ Configuring
  /\ \E res \in results : peer' = SetFallback(peer, HandlerFunc(res))
  /\ router' = Untouched(router, peer')
  /\ UNCHANGED <<newErr, newOptions, req, w, calls, passed, inflight, pending>>

\* r.On(slack.InteractionTypeBlockActions, h, BlockAction(blockID, actionID))
\* on the interaction Router
CallOnBlockAction(max, results) ==
  /\ router /= NoRouter
  /\ Configuring
  /\ router.kind = "interaction"
  /\ NumHandlers(router) < max
  /\ \E res \in results, b \in BlockIDs, a \in ActionIDs :
       router' = InteractionOn(router, "block_actions", HandlerFunc(res),
                               << BlockAction(b, a) >>)
  /\ peer' = Untouched(peer, router')
  /\ UNCHANGED <<newErr, newOptions, req, w, calls, passed, inflight, pending>>

(* Router.On statement by statement, for calls made at the same time:      *)
(* pending[g] holds the arguments and the local variable handlers of the   *)
(* call made by the goroutine g. The map and the slices are not guarded by *)
(* a lock, so calls that overlap are a data race: the Go runtime may stop  *)
(* the program with "concurrent map writes", or the writes take effect in  *)
(* the order of the steps.                                                 *)

\* the program was stopped by the runtime
Fatal == [pc |-> "fatal"]

\* slip: the write appends to the list as it is at the time of the write, as
\* under a lock held around the whole of On
OnStoreFresh(r, eventType, handlers, h) == On(r, eventType, h)

\* handlers = append(handlers, h); r.callbackHandlers[eventType] = handlers
OnStore(r, eventType, handlers, h) ==
  [r EXCEPT !.callbackHandlers = (eventType :> Append(handlers, h)) @@ @]

\* handlers, ok := r.callbackHandlers[eventType], and make([]Handler, 0)
\* when there is none
OnLoad(g, eventType, h) ==
  /\ router /= NoRouter
  /\ Configuring
  /\ pending[g] = Idle
  /\ pending' = [pending EXCEPT ![g] =
       [pc |-> "loaded", eventType |-> eventType, h |-> h,
        handlers |-> IF eventType \in DOMAIN router.callbackHandlers
                       THEN router.callbackHandlers[eventType] ELSE <<>>,
        after |-> { o \in Goroutines : pending[o].pc = "done" }]]
  /\ UNCHANGED <<router, peer, newErr, newOptions, req, w, calls, passed, inflight>>

\* the append and the store of On; when the other call is in progress the
\* runtime may detect the race and stop the program
OnAppendStore(g) ==
  /\ pending[g].pc = "loaded"
  /\ \/ /\ router' = OnStore(router, pending[g].eventType, pending[g].handlers, pending[g].h)
        /\ pending' = [pending EXCEPT ![g].pc = "done"]
     \/ /\ Overlapping(pending, g)
        /\ pending' = [o \in Goroutines |-> Fatal]
        /\ UNCHANGED router
  /\ UNCHANGED <<peer, newErr, newOptions, req, w, calls, passed, inflight>>

(* Router.serveHTTP and handleCallbackEvent statement by statement, for     *)
(* requests served at the same time: inflight[g] holds the local variables *)
(* of the call made by the goroutine g (the event, the index of the range  *)
(* loop, err, the ResponseWriter and what was invoked so far).             *)

\* slip: err is one variable for all calls, a call in progress elsewhere
\* overwrites it
ErrShared(calling, g) ==
  IF Overlapping(calling, g)
    THEN calling[CHOOSE o \in Goroutines \ {g} : calling[o].pc \notin {"idle", "done"}].err
    ELSE calling[g].err

\* var err error: a local variable of handleCallbackEvent
Err(calling, g) == calling[g].err

\* serveHTTP up to the switch, and "var err error = NotInterested" with the
\* lookup of the handlers in handleCallbackEvent
Accept(g, rq) ==
  /\ router /= NoRouter
  /\ router.kind = "events"
  /\ inflight[g] = Idle
  /\ inflight' = [inflight EXCEPT ![g] =
       [pc |-> "range", e |-> rq.body, i |-> 1, err |-> NotInterested,
        st |-> Invoked(Begin, Call("serveHTTP", "", 0, Nil)),
        overlapped |-> Overlapping(inflight, g)]]
  /\ UNCHANGED <<router, peer, newErr, newOptions, req, w, calls, passed, pending>>

\* one iteration of "for _, h := range handlers", or its end
RangeStep(g) ==
  /\ inflight[g].pc = "range"
  /\ LET l == inflight[g]
         ok == l.e.arg \in DOMAIN router.callbackHandlers
         handlers == IF ok THEN router.callbackHandlers[l.e.arg] ELSE <<>>
         called == HandleEvent(handlers[l.i], l.e, "handler", l.i, l.st)
     IN inflight' = [inflight EXCEPT ![g] =
          IF l.i > Len(handlers)
            THEN [l EXCEPT !.pc = "fallback",
                           !.overlapped = @ \/ Overlapping(inflight, g)]
            ELSE [l EXCEPT !.pc = IF ~ErrorsIs(called.err, NotInterested)
                                    THEN "fallback" ELSE "range",
                           !.i = @ + 1,
                           !.err = called.err,
                           !.st = called.st,
                           !.overlapped = @ \/ Overlapping(inflight, g)]]
  /\ UNCHANGED <<router, peer, newErr, newOptions, req, w, calls, passed, pending>>

\* if errors.Is(err, NotInterested) { err = r.handleFallback(ctx, e) }
FallbackStep(g) ==
  /\ inflight[g].pc = "fallback"
  /\ LET l == inflight[g]
         fb == handleFallback(router, l.e, l.st)
     IN inflight' = [inflight EXCEPT ![g] =
          IF ErrorsIs(Err(inflight, g), NotInterested)
            THEN [l EXCEPT !.pc = "respond", !.err = fb.err, !.st = fb.st,
                           !.overlapped = @ \/ Overlapping(inflight, g)]
            ELSE [l EXCEPT !.pc = "respond", !.err = Err(inflight, g),
                           !.overlapped = @ \/ Overlapping(inflight, g)]]
  /\ UNCHANGED <<router, peer, newErr, newOptions, req, w, calls, passed, pending>>

\* the response of handleCallbackEvent: respondWithError or WriteHeader(200)
RespondStep(g) ==
  /\ inflight[g].pc = "respond"
  /\ LET l == inflight[g]
         err == Err(inflight, g)
     IN inflight' = [inflight EXCEPT ![g] =
          [l EXCEPT !.pc = "done",
                    !.st = IF err /= Nil /\ ~ErrorsIs(err, NotInterested)
                             THEN respondWithError(router, l.st, err)
                             ELSE [l.st EXCEPT !.w = WriteHeader(@, StatusOK)],
                    !.overlapped = @ \/ Overlapping(inflight, g)]]
  /\ UNCHANGED <<router, peer, newErr, newOptions, req, w, calls, passed, pending>>

\* r.SetFallback(h)
CallSetFallback(results) ==
  /\ router /= NoRouter
  /\ Configuring
  /\ \E res \in results :
       /\ router' = SetFallback(router, HandlerFunc(res))
       /\ passed' = Pass("fallback", HandlerFunc(res))
  /\ peer' = Untouched(peer, router')
  /\ UNCHANGED <<newErr, newOptions, req, w, calls, inflight, pending>>

\* r.SetURLVerificationHandler(h)
CallSetURLVerificationHandler ==
  /\ router /= NoRouter
  /\ Configuring
  /\ router.kind = "events"
  /\ \E res \in {Nil, OtherError, WithMessage(HttpError(StatusUnauthorized))} :
       /\ router' = SetURLVerificationHandler(router, HandlerFunc(res))
       /\ passed' = Pass("urlVerification", HandlerFunc(res))
  /\ peer' = Untouched(peer, router')
  /\ UNCHANGED <<newErr, newOptions, req, w, calls, inflight, pending>>

\* r.SetAppRateLimitedHandler(h)
CallSetAppRateLimitedHandler ==
  /\ router /= NoRouter
  /\ Configuring
  /\ router.kind = "events"
  /\ \E res \in {Nil, OtherError, WithMessage(HttpError(StatusUnauthorized))} :
       /\ router' = SetAppRateLimitedHandler(router, HandlerFunc(res))
       /\ passed' = Pass("appRateLimited", HandlerFunc(res))
  /\ peer' = Untouched(peer, router')
  /\ UNCHANGED <<newErr, newOptions, req, w, calls, inflight, pending>>

\* the requests of Spec and SpecEnv: unsigned, or signed by AddSignature
\* with the secret S1 and a fresh timestamp
DispatchRequests ==
  UNION { { Request("", NoSignature, "application/json", b),
            Request("3700", AddSignature("S1", b, "3700"), "application/json", b) } :
          b \in EventBodies }

\* the bodies of SpecSig
SignedBodies(r) ==
  IF r.kind = "events"
    THEN { Body("readerr", ""), Body("url_verification", "X"),
           Body("event_callback", "message"), Body("app_rate_limited", "decodes") }
    ELSE { Body("readerr", ""), Body("interaction", "shortcut") }

\* the requests of SpecSig: every combination of the two headers
SignatureRequests(r) ==
  UNION { { Request(ts, sig, "application/x-www-form-urlencoded", b) :
              sig \in SignatureHeaders(ts, b) } :
          ts \in TimestampHeaders, b \in SignedBodies(r) }

\* the requests of SpecPred: unsigned callbacks with a payload
PayloadRequests(r) ==
  IF r.kind = "events"
    THEN { Request("", NoSignature, "application/json",
                   CallbackBody("event_callback", "message", d)) : d \in MessageEvents }
    ELSE { Request("", NoSignature, "application/x-www-form-urlencoded",
                   CallbackBody("interaction", "shortcut", d)) : d \in InteractionCallbacks }

\* the requests of SpecForm: every body with every Content-Type, unsigned or
\* signed by AddSignature with the secret S1 and a fresh timestamp
FormRequests ==
  UNION { { Request("", NoSignature, ct, b),
            Request("3700", AddSignature("S1", b, "3700"), ct, b) } :
          ct \in ContentTypes, b \in InteractionBodies }

\* timestamps around both ends of the freshness window: now - 3601,
\* now - 301, now - 300, now - 299, now, now + 299, now + 300, now + 301
FreshnessTimestamps == {"399", "3699", "3700", "3701", "4000", "4299", "4300", "4301"}

SigningKeys == {"S1", "S2"}

\* the option lists of SpecFresh: a signing secret, with or without
\* VerboseResponse
SecretOptionLists ==
  UNION { { << [opt |-> "WithSigningSecret", token |-> k] >>,
            << [opt |-> "WithSigningSecret", token |-> k],
               [opt |-> "VerboseResponse", token |-> ""] >> } : k \in SigningKeys }

\* the requests of SpecFresh: signed by AddSignature with one of the keys
\* and one of the timestamps
FreshnessRequests(r) ==
  { Request(ts, AddSignature(k, b, ts), "application/x-www-form-urlencoded", b) :
      ts \in FreshnessTimestamps, k \in SigningKeys, b \in SignedBodies(r) }

\* slip: the registry lookup stores an empty list for a type that has none
ServedRouterStoresList(r, rq) ==
  IF rq.body.kind \in {"event_callback", "interaction"}
       /\ rq.body.arg \notin DOMAIN r.callbackHandlers
    THEN [r EXCEPT !.callbackHandlers = (rq.body.arg :> <<>>) @@ @]
    ELSE r

\* the Router after Router.ServeHTTP returned: the Middleware, serveHTTP and
\* the handle* methods read the fields of the Router and its map, and no
\* statement of them assigns to one
ServedRouter(r, rq) == r

\* router.ServeHTTP(w, req) for one request
ServeHTTP(rq) ==
  /\ router /= NoRouter
  /\ LET st == RouterServeHTTP(router, rq)
     IN /\ req' = rq
        /\ w' = st.w
        /\ calls' = st.calls
  /\ router' = ServedRouter(router, rq)
  /\ UNCHANGED <<peer, newErr, newOptions, passed, inflight, pending>>

----------------------------------------------------------------------------
(* Spec: callback dispatch of the events Router *)

NewRouter == CallNew({"events"}, UsualOptionLists)

Register == CallOn(MaxHandlers, Results)

RegisterFallback == CallSetFallback(Results)

\* the requests of Spec: the callback envelopes among DispatchRequests
CallbackRequests == { rq \in DispatchRequests : rq.body.kind = "event_callback" }

ServeCallback == \E rq \in CallbackRequests : ServeHTTP(rq)

Next ==
  \/ NewRouter
  \/ Register
  \/ RegisterFallback
  \/ ServeCallback

Spec == Init /\ [][Next]_vars

----------------------------------------------------------------------------
(* SpecSig: signature verification in front of both Routers *)

NewAnyRouter == CallNew({"events", "interaction"}, UsualOptionLists)

RegisterDeclining == CallOn(MaxSigHandlers, {NotInterested})

RegisterNilFallback == CallSetFallback({Nil})

ServeSigned == \E rq \in SignatureRequests(router) : ServeHTTP(rq)

NextSig ==
  \/ NewAnyRouter
  \/ RegisterDeclining
  \/ RegisterNilFallback
  \/ ServeSigned

SpecSig == Init /\ [][NextSig]_vars

----------------------------------------------------------------------------
(* SpecEnv: the envelope types of the events Router and their handlers *)

Serve == \E rq \in DispatchRequests : ServeHTTP(rq)

NextEnv ==
  \/ NewRouter
  \/ CallSetURLVerificationHandler
  \/ CallSetAppRateLimitedHandler
  \/ RegisterNilFallback
  \/ Serve

SpecEnv == Init /\ [][NextEnv]_vars

----------------------------------------------------------------------------
(* SpecNew: construction of both Routers from any list of options *)

NewFromOptions == CallNew({"events", "interaction"}, OptionLists)

ServeUnregistered ==
  \E rq \in DispatchRequests \cup SignatureRequests(router) : ServeHTTP(rq)

NextNew ==
  \/ NewFromOptions
  \/ ServeUnregistered

SpecNew == Init /\ [][NextNew]_vars

----------------------------------------------------------------------------
(* SpecPred: handlers registered with predicates, on both Routers *)

NewBypassRouter ==
  CallNew({"events", "interaction"},
          { << [opt |-> "InsecureSkipVerification", token |-> ""] >> })

RegisterWithPredicates ==
  CallOnWithPredicates(MaxPredHandlers, MaxPreds, {Nil, NotInterested, OtherError})

ServePayload == \E rq \in PayloadRequests(router) : ServeHTTP(rq)

NextPred ==
  \/ NewBypassRouter
  \/ RegisterWithPredicates
  \/ RegisterNilFallback
  \/ ServePayload

SpecPred == Init /\ [][NextPred]_vars

----------------------------------------------------------------------------
(* SpecForm: the input checks of the interaction Router *)

NewInteractionRouter == CallNew({"interaction"}, UsualOptionLists)

ServeForm == \E rq \in FormRequests : ServeHTTP(rq)

NextForm ==
  \/ NewInteractionRouter
  \/ RegisterDeclining
  \/ RegisterNilFallback
  \/ ServeForm

SpecForm == Init /\ [][NextForm]_vars

----------------------------------------------------------------------------
(* SpecFresh: signed requests around the freshness window, two secrets *)

NewSignedRouter == CallNew({"events", "interaction"}, SecretOptionLists)

ServeTimestamped == \E rq \in FreshnessRequests(router) : ServeHTTP(rq)

NextFresh ==
  \/ NewSignedRouter
  \/ RegisterNilFallback
  \/ ServeTimestamped

SpecFresh == Init /\ [][NextFresh]_vars

----------------------------------------------------------------------------
(* SpecSet: the Set* methods called any number of times, then requests *)

NewEventsBypassRouter ==
  CallNew({"events"}, { << [opt |-> "InsecureSkipVerification", token |-> ""] >> })

\* fallbacks as in the test of SetFallback, and one that fails
RegisterFallbacks == CallSetFallback({Nil, OtherError})

\* the requests of SpecSet: the unsigned ones among DispatchRequests
UnsignedRequests == { rq \in DispatchRequests : rq.sig = NoSignature }

ServeUnsigned == \E rq \in UnsignedRequests : ServeHTTP(rq)

NextSet ==
  \/ NewEventsBypassRouter
  \/ RegisterFallbacks
  \/ CallSetURLVerificationHandler
  \/ CallSetAppRateLimitedHandler
  \/ ServeUnsigned

SpecSet == Init /\ [][NextSet]_vars

----------------------------------------------------------------------------
(* SpecTwo: two Routers of one program, each with its own registrations *)

NewPeer ==
  CallNewPeer({ << [opt |-> "InsecureSkipVerification", token |-> ""] >> })

RegisterOne == CallOn(MaxSigHandlers, {Nil, OtherError})

RegisterOnPeer == CallOnPeer(MaxSigHandlers, {Nil, OtherError})

RegisterPeerFallback == CallSetFallbackPeer({OtherError})

NextTwo ==
  \/ NewEventsBypassRouter
  \/ NewPeer
  \/ RegisterOne
  \/ RegisterOnPeer
  \/ RegisterNilFallback
  \/ RegisterPeerFallback
  \/ CallSetURLVerificationHandler
  \/ ServeUnsigned

SpecTwo == Init /\ [][NextTwo]_vars

----------------------------------------------------------------------------
(* SpecBlock: handlers registered with the BlockAction predicate *)

NewInteractionBypassRouter ==
  CallNew({"interaction"}, { << [opt |-> "InsecureSkipVerification", token |-> ""] >> })

RegisterWithBlockAction == CallOnBlockAction(MaxPredHandlers, {Nil, OtherError})

\* the requests of SpecBlock: unsigned block_actions callbacks
BlockActionRequests ==
  { Request("", NoSignature, "application/x-www-form-urlencoded",
            CallbackBody("interaction", "block_actions", d)) : d \in BlockActionCallbacks }

ServeBlockActions == \E rq \in BlockActionRequests : ServeHTTP(rq)

NextBlock ==
  \/ NewInteractionBypassRouter
  \/ RegisterWithBlockAction
  \/ RegisterNilFallback
  \/ ServeBlockActions

SpecBlock == Init /\ [][NextBlock]_vars

----------------------------------------------------------------------------
(* SpecTee: signed requests whose body arrives in chunks *)

\* the bodies of SpecTee
StreamBodies(r) ==
  IF r.kind = "events"
    THEN { Body("url_verification", "X"), Body("event_callback", "message") }
    ELSE { Body("interaction", "shortcut") }

\* fresh, stale and absent timestamp headers
StreamTimestamps == {"3700", "399", ""}

\* the requests of SpecTee: the text of b signed with one of the keys, and
\* delivered in any chunking, with or without a failing last Read
StreamRequests(r) ==
  UNION { { [ts |-> ts, sig |-> AddSignature(k, Encode(b), ts),
             ctype |-> "application/x-www-form-urlencoded", body |-> b,
             stream |-> Stream(cs, fails, "transport")] :
              ts \in StreamTimestamps, k \in SigningKeys,
              cs \in Chunkings(Encode(b)), fails \in BOOLEAN } :
          b \in StreamBodies(r) }

ServeStream == \E rq \in StreamRequests(router) : ServeHTTP(rq)

NextTee ==
  \/ NewSignedRouter
  \/ RegisterNilFallback
  \/ ServeStream

SpecTee == Init /\ [][NextTee]_vars

----------------------------------------------------------------------------
(* SpecConc: two callbacks served at the same time by a configured Router *)

RegisterSome == CallOn(MaxHandlers, {Nil, NotInterested, OtherError})

RegisterFailingFallback == CallSetFallback({HttpError(StatusNotFound)})

AcceptCallback ==
  \E g \in Goroutines, rq \in UnsignedRequests :
    rq.body.kind = "event_callback" /\ Accept(g, rq)

Range == \E g \in Goroutines : RangeStep(g)

Fallback == \E g \in Goroutines : FallbackStep(g)

Respond == \E g \in Goroutines : RespondStep(g)

NextConc ==
  \/ NewEventsBypassRouter
  \/ RegisterSome
  \/ RegisterFailingFallback
  \/ AcceptCallback
  \/ Range
  \/ Fallback
  \/ Respond

SpecConc == Init /\ [][NextConc]_vars

----------------------------------------------------------------------------
(* SpecReg: two calls of On at the same time *)

Load ==
  \E g \in Goroutines, t \in EventTypes, res \in {Nil, OtherError} :
    OnLoad(g, t, HandlerFunc(res))

AppendStore == \E g \in Goroutines : OnAppendStore(g)

\* a callback served after the registrations returned
ServeRegistered ==
  /\ \A g \in Goroutines : pending[g].pc = "done"
  /\ \E rq \in CallbackRequests : ServeHTTP(rq)

NextReg ==
  \/ NewEventsBypassRouter
  \/ Load
  \/ AppendStore
  \/ ServeRegistered

SpecReg == Init /\ [][NextReg]_vars

----------------------------------------------------------------------------
(* SpecOuter: every envelope type against a registry with handlers, a       *)
(* fallback and the two envelope handlers                                   *)

NextOuter ==
  \/ NewEventsBypassRouter
  \/ RegisterOne
  \/ RegisterFallbacks
  \/ CallSetURLVerificationHandler
  \/ CallSetAppRateLimitedHandler
  \/ ServeUnsigned

SpecOuter == Init /\ [][NextOuter]_vars

----------------------------------------------------------------------------
(* SpecTyped: OnMessage registrations among plain ones, served message      *)
(* callbacks whose data has the asserted concrete type or another one       *)

RegisterTyped == CallOnWithPredicates(MaxHandlers, MaxPreds, {Nil})

RegisterPlain == CallOn(MaxHandlers, {Nil, NotInterested})

\* the requests of SpecTyped
TypedRequests ==
  { Request("", NoSignature, "application/json",
            CallbackBody("event_callback", "message", d)) :
      d \in MessageEvents \cup OtherEvents }

ServeTyped == \E rq \in TypedRequests : ServeHTTP(rq)

NextTyped ==
  \/ NewEventsBypassRouter
  \/ RegisterTyped
  \/ RegisterPlain
  \/ RegisterNilFallback
  \/ ServeTyped

SpecTyped == Init /\ [][NextTyped]_vars

----------------------------------------------------------------------------
(* SpecCtx: requests that carry a context, on both Routers *)

\* the contexts of the inbound requests
Contexts == {"ctx1", "ctx2"}

\* the requests of SpecCtx: req.WithContext(c)
ContextRequests(r) ==
  { rq @@ [ctx |-> c] : rq \in PayloadRequests(r), c \in Contexts }

ServeWithContext == \E rq \in ContextRequests(router) : ServeHTTP(rq)

NextCtx ==
  \/ NewBypassRouter
  \/ RegisterWithPredicates
  \/ RegisterNilFallback
  \/ ServeWithContext

SpecCtx == Init /\ [][NextCtx]_vars

----------------------------------------------------------------------------
(* Vocabulary of the properties *)

\* a request was served, and it reached the dispatch entry point serveHTTP
Served == req /= NoRequest

Entered == Served /\ Len(calls) > 0 /\ calls[1].slot = "serveHTTP"

\* the served request is a callback envelope that was dispatched
CallbackDispatched == Entered /\ req.body.kind = "event_callback"

\* the handlers registered for the inner type of the served request
Registered ==
  IF req.body.arg \in DOMAIN router.callbackHandlers
    THEN router.callbackHandlers[req.body.arg] ELSE <<>>

\* the result is NotInterested, bare or wrapped
Declines(err) == err.base = "NotInterested"

\* the position of the first registered handler that does not decline
\* (one past the end when every handler declines)
FirstClaiming ==
  IF \A i \in 1..Len(Registered) : Declines(Registered[i].res)
    THEN Len(Registered) + 1
    ELSE CHOOSE i \in 1..Len(Registered) :
           /\ ~Declines(Registered[i].res)
           /\ \A j \in 1..(i - 1) : Declines(Registered[j].res)

InvocationsOf(slot) == SelectSeq(calls, LAMBDA c : c.slot = slot)

Min(a, b) == IF a < b THEN a ELSE b

\* C1: a dispatched callback invokes the handlers registered for its inner
\* type in registration order, each once, up to and including the first one
\* whose result is not NotInterested, and no handler after that one; when
\* the first handler returns nil the status is 200 and it is the only
\* handler invoked.
C1_FirstMatchWins ==
  CallbackDispatched =>
    LET hc == InvocationsOf("handler") IN
    /\ Len(hc) = Min(FirstClaiming, Len(Registered))
    /\ \A i \in 1..Len(hc) :
         hc[i] = Call("handler", req.body.arg, i, Registered[i].res)
    /\ (Len(Registered) > 0 /\ Registered[1].res = Nil) =>
         (StatusCode(w) = StatusOK /\ Len(hc) = 1)

C1_Witness ==
  /\ CallbackDispatched
  /\ Len(Registered) >= 2
  /\ Registered[1].res = Nil
  /\ Len(InvocationsOf("handler")) = 1
  /\ StatusCode(w) = StatusOK

\* C2: with a Fallback configured, a dispatched callback invokes the
\* Fallback exactly once when no handler is registered for the inner type or
\* every registered handler returned NotInterested, and then every
\* registered handler was invoked once, in order, before it; otherwise the
\* Fallback is not invoked.
C2_FallbackChain ==
  (CallbackDispatched /\ router.fallbackHandler /= NilHandler) =>
    LET fc == InvocationsOf("fallback")
        allDecline == \A i \in 1..Len(Registered) : Declines(Registered[i].res)
    IN IF allDecline
         THEN /\ Len(fc) = 1
              /\ Len(calls) = Len(Registered) + 2
              /\ \A i \in 1..Len(Registered) :
                   calls[i + 1] = Call("handler", req.body.arg, i, Registered[i].res)
              /\ calls[Len(calls)].slot = "fallback"
         ELSE Len(fc) = 0

C2_Witness ==
  /\ CallbackDispatched
  /\ router.fallbackHandler = HandlerFunc(Nil)
  /\ Len(Registered) = 2
  /\ Registered[1].res = NotInterested
  /\ Registered[2].res = NotInterested
  /\ Len(InvocationsOf("handler")) = 2
  /\ Len(InvocationsOf("fallback")) = 1
  /\ StatusCode(w) = StatusOK

\* one response: a status, a status followed by one body, or one body
OneResponse(ops) ==
  \/ Len(ops) = 1
  \/ Len(ops) = 2 /\ ops[1].op = "WriteHeader" /\ ops[2].op = "Write"

\* C4: every request served by the events Router produces exactly one
\* response: the status and the body are written once, and nothing is
\* written after an error response.
C4_ExactlyOneResponse ==
  (Served /\ router.kind = "events") => OneResponse(w.ops)

----------------------------------------------------------------------------
(* Signed mode *)

\* the Router was built with a signing secret and without the bypass, and
\* it served a request
SignedServed == Served /\ router.signingSecret /= "" /\ ~router.skipVerification

HeadersPresent == req.sig.form /= "absent" /\ req.ts /= ""

\* both headers are present and have the form of a signature and of a
\* decimal timestamp
HeadersWellFormed == HeadersPresent /\ req.sig.form = "v0hex" /\ ParseInt(req.ts).ok

Fresh == HeadersWellFormed /\ Abs(Now - ParseInt(req.ts).v) <= MaxAge

Stale == HeadersWellFormed /\ Abs(Now - ParseInt(req.ts).v) > MaxAge

BodyReceived == req.body.kind /= "readerr"

\* the claimed signature is the HMAC of the received timestamp header and
\* body under the Router's secret
SignatureMatches ==
  req.sig.mac = Hmac(router.signingSecret, BaseString(req.ts, req.body))

\* the request passes signature verification
Verified == Fresh /\ BodyReceived /\ SignatureMatches

\* the response is an error response written by the Middleware itself: one
\* status of 400, 401 or 500, and a body only in verbose mode
RejectedByMiddleware ==
  /\ Len(w.ops) >= 1
  /\ w.ops[1].op = "WriteHeader"
  /\ w.ops[1].code \in {StatusBadRequest, StatusUnauthorized, StatusInternalServerError}
  /\ Len(w.ops) = IF router.verboseResponse THEN 2 ELSE 1
  /\ \A i \in 1..Len(w.body) : w.body[i].kind = "error" /\ w.body[i].prefix /= ""

\* C3: in signed mode the dispatch entry point, every registered handler,
\* the fallback, the URL-verification handler and the rate-limit handler are
\* invoked only for a request that passed signature verification; when
\* verification fails the Middleware writes the error response and nothing
\* downstream runs.
C3_VerifiedBeforeDispatch ==
  SignedServed =>
    /\ (calls /= <<>>) => Verified
    /\ ~Verified => (calls = <<>> /\ RejectedByMiddleware)
    /\ Verified => Entered

C3_Witness ==
  /\ SignedServed
  /\ Verified
  /\ Len(InvocationsOf("handler")) = 1
  /\ Len(InvocationsOf("fallback")) = 1

\* C5: in signed mode a request whose timestamp is outside the freshness
\* window is answered with 401, also when its signature is valid.
C5_StaleIsUnauthorized ==
  (SignedServed /\ Stale) => StatusCode(w) = StatusUnauthorized

\* C6: in signed mode a request without the signature header or without the
\* timestamp header, or with a timestamp that is no integer, is answered
\* with 400.
C6_MissingOrMalformedIsBadRequest ==
  (SignedServed /\ (~HeadersPresent \/ (req.sig.form = "v0hex" /\ ~ParseInt(req.ts).ok)))
    => StatusCode(w) = StatusBadRequest

\* C7: in signed mode a request with a fresh timestamp and a well-formed
\* signature that is not the HMAC of the received timestamp and body under
\* the configured secret is rejected as a signature mismatch with 401, and
\* the wrapped handler is not invoked.
C7_MismatchIsUnauthorized ==
  (SignedServed /\ Fresh /\ BodyReceived /\ ~SignatureMatches) =>
    /\ StatusCode(w) = StatusUnauthorized
    /\ calls = <<>>
    /\ router.verboseResponse =>
         w.body = << ErrorText("verification failed", ErrSignatureMismatch) >>

C7_Witness ==
  /\ SignedServed
  /\ Fresh
  /\ BodyReceived
  /\ req.sig = AddSignature("S2", req.body, req.ts)
  /\ StatusCode(w) = StatusUnauthorized
  /\ calls = <<>>

----------------------------------------------------------------------------
(* Construction *)

\* a signing secret is set by the options: the last WithSigningSecret among
\* them carries a non-empty token
SecretSet(opts) ==
  \E i \in 1..Len(opts) :
    /\ opts[i].opt = "WithSigningSecret"
    /\ opts[i].token /= ""
    /\ \A j \in (i + 1)..Len(opts) : opts[j].opt /= "WithSigningSecret"

\* the insecure-bypass flag is set by the options
BypassSet(opts) == \E i \in 1..Len(opts) : opts[i].opt = "InsecureSkipVerification"

----------------------------------------------------------------------------
(* Results of callback dispatch *)

\* the final result of callback dispatch: the result of the first handler
\* that does not decline, else the result of the Fallback, else NotInterested
FinalResult ==
  IF FirstClaiming <= Len(Registered) THEN Registered[FirstClaiming].res
  ELSE IF router.fallbackHandler = NilHandler THEN NotInterested
  ELSE router.fallbackHandler.res

\* C9: when the final result of callback dispatch is or wraps HttpError(c)
\* the response status is c; when it is another error that is not
\* NotInterested the response status is 500.
C9_ErrorTranslation ==
  CallbackDispatched =>
    /\ FinalResult.base = "HttpError" => StatusCode(w) = FinalResult.code
    /\ FinalResult.base = "other" => StatusCode(w) = StatusInternalServerError

C9_Witness ==
  /\ CallbackDispatched
  /\ FinalResult = WithMessage(HttpError(StatusUnauthorized))
  /\ StatusCode(w) = StatusUnauthorized

\* the handler with a wrapped NotInterested result replaced by the bare one
Bare(h) == IF Declines(h.res) THEN [h EXCEPT !.res = NotInterested] ELSE h

BareRouter ==
  [router EXCEPT
     !.callbackHandlers =
        [t \in DOMAIN @ |-> [i \in 1..Len(@[t]) |-> Bare(@[t][i])]],
     !.fallbackHandler = Bare(@)]

\* which handlers were invoked, in order, without their results
Outline(cs) == [i \in 1..Len(cs) |-> <<cs[i].slot, cs[i].type, cs[i].idx>>]

\* C10: a handler result that wraps NotInterested is treated like bare
\* NotInterested: dispatch goes on to the next handler, falls through to the
\* Fallback after the last one, and answers 200 with an empty body when it
\* is the final result; the invocations and the response are those of the
\* same Router with bare NotInterested results.
C10_WrappedNotInterested ==
  CallbackDispatched =>
    LET hc == InvocationsOf("handler")
        bare == RouterServeHTTP(BareRouter, req)
    IN /\ \A i \in 1..Len(hc) :
            hc[i].res = WithMessage(NotInterested) =>
              IF i < Len(Registered) THEN Len(hc) > i
              ELSE router.fallbackHandler /= NilHandler =>
                     Len(InvocationsOf("fallback")) = 1
       /\ FinalResult = WithMessage(NotInterested) =>
            (StatusCode(w) = StatusOK /\ w.body = <<>>)
       /\ Outline(bare.calls) = Outline(calls)
       /\ bare.w = w

C10_Witness ==
  /\ CallbackDispatched
  /\ Len(Registered) = 2
  /\ Registered[1].res = WithMessage(NotInterested)
  /\ Registered[2].res = NotInterested
  /\ router.fallbackHandler = HandlerFunc(WithMessage(NotInterested))
  /\ Len(calls) = 4
  /\ StatusCode(w) = StatusOK

\* C11: when the final result of callback dispatch is NotInterested (no
\* handler for the type and no Fallback, or every handler and the Fallback
\* declined) or nil, the response is 200 with an empty body, in verbose mode
\* too; a decline never becomes an error status.
C11_DeclineIsSuccess ==
  (CallbackDispatched /\ (FinalResult = Nil \/ Declines(FinalResult))) =>
    /\ StatusCode(w) = StatusOK
    /\ w.body = <<>>
    /\ w.ops = << [op |-> "WriteHeader", code |-> StatusOK] >>

C11_Witness ==
  /\ CallbackDispatched
  /\ router.verboseResponse
  /\ Len(Registered) = 1
  /\ Registered[1].res = NotInterested
  /\ router.fallbackHandler = HandlerFunc(NotInterested)
  /\ Len(calls) = 3
  /\ StatusCode(w) = StatusOK
  /\ w.body = <<>>

----------------------------------------------------------------------------
(* Predicate chains *)

\* the served request is a callback with a payload that reached the registry
PayloadDispatched == Entered /\ "data" \in DOMAIN req.body

\* the predicates evaluated for the handler registered at position i, in
\* order of evaluation
PredicatesEvaluated(i) ==
  LET cs == SelectSeq(calls, LAMBDA c : c.slot = "predicate" /\ c.idx = i)
  IN [k \in 1..Len(cs) |-> cs[k].pred]

\* the invocations of the terminal handler registered at position i
TerminalInvocations(i) ==
  SelectSeq(calls, LAMBDA c : c.slot = "handler" /\ c.idx = i)

\* the handler at position i was called by the dispatch loop: it is the
\* first one, or something of it was recorded
Called(i) ==
  i = 1 \/ PredicatesEvaluated(i) /= <<>> \/ TerminalInvocations(i) /= <<>>

\* what the handler at position i returned for the served request
Returned(i) == HandleEvent(Registered[i], req.body, "handler", i, Begin).err

AllPredicateLists == PredicateLists(router.kind, MaxPreds)

TerminalResults == {Nil, NotInterested, OtherError}

Reverse(seq) == [k \in 1..Len(seq) |-> seq[Len(seq) + 1 - k]]

\* the number of leading predicates of seq that match the payload
RECURSIVE Matching(_, _)
Matching(seq, data) ==
  IF seq = <<>> \/ ~Matches(Head(seq), data) THEN 0
  ELSE 1 + Matching(Tail(seq), data)

\* seq up to and including its first predicate that does not match
UpToFirstMiss(seq, data) == SubSeq(seq, 1, Min(Matching(seq, data) + 1, Len(seq)))

C13_BuildAllMatch ==
  PayloadDispatched =>
    \A i \in 1..Len(Registered), preds \in AllPredicateLists, res \in TerminalResults :
      (/\ Registered[i] = Registration(router.kind, HandlerFunc(res), preds)
       /\ Called(i)) =>
        LET allMatch == \A k \in 1..Len(preds) : Matches(preds[k], req.body.data)
        IN /\ Len(TerminalInvocations(i)) = IF allMatch THEN 1 ELSE 0
           /\ Returned(i) = IF allMatch THEN res ELSE NotInterested
           /\ allMatch => TerminalInvocations(i)[1].res = res
           /\ preds = <<>> => Build(HandlerFunc(res), preds) = HandlerFunc(res)

C13_Witness ==
  /\ PayloadDispatched
  /\ router.kind = "interaction"
  /\ Len(Registered) = 1
  /\ Registered[1] = Build(HandlerFunc(Nil), << CallbackID("cb1"), Channel("C1") >>)
  /\ req.body.data.callback_id = "cb1"
  /\ req.body.data.channel = "C1"
  /\ Len(PredicatesEvaluated(1)) = 2
  /\ Len(TerminalInvocations(1)) = 1
  /\ StatusCode(w) = StatusOK

----------------------------------------------------------------------------
(* Input checks *)

\* nothing but the dispatch entry point ran: no handler, no fallback
OnlyEntered == calls = << Call("serveHTTP", "", 0, Nil) >>

\* C14: when the events Router cannot read the request body, or the body is
\* no well-formed event envelope, the response status is 400 and no handler
\* is invoked.
C14_ParseFailureIsBadRequest ==
  (Entered /\ router.kind = "events" /\ req.body.kind \in {"readerr", "malformed"}) =>
    /\ StatusCode(w) = StatusBadRequest
    /\ OnlyEntered

\* C15: when the payload field of a form request to the interaction Router
\* is present and non-empty but is no JSON interaction callback, the
\* response status is 400 and neither a handler nor the fallback is invoked.
C15_MalformedPayloadIsBadRequest ==
  (/\ Entered
   /\ router.kind = "interaction"
   /\ req.ctype = "application/x-www-form-urlencoded"
   /\ req.body.kind = "form_badjson") =>
    /\ StatusCode(w) = StatusBadRequest
    /\ OnlyEntered

\* C16: the interaction Router rejects a request whose Content-Type is not
\* application/x-www-form-urlencoded with 400 whatever its payload field
\* holds, and a form request whose payload field is absent or empty with
\* 400; in both cases neither a handler nor the fallback is invoked.
C16_InteractionInputChecks ==
  (Entered /\ router.kind = "interaction") =>
    /\ req.ctype /= "application/x-www-form-urlencoded" =>
         /\ StatusCode(w) = StatusBadRequest
         /\ OnlyEntered
         /\ \A b \in InteractionBodies :
              Handler(router, [req EXCEPT !.body = b], Begin).w = w
    /\ (req.ctype = "application/x-www-form-urlencoded" /\ FormValue(req.body) = "") =>
         /\ StatusCode(w) = StatusBadRequest
         /\ OnlyEntered

\* a well-formed callback sent as application/json to a Router with a
\* handler and a fallback: rejected, nothing invoked
C16_Witness ==
  /\ Entered
  /\ router.kind = "interaction"
  /\ req.ctype = "application/json"
  /\ req.body = Body("interaction", "shortcut")
  /\ "shortcut" \in DOMAIN router.callbackHandlers
  /\ router.fallbackHandler /= NilHandler
  /\ StatusCode(w) = StatusBadRequest
  /\ OnlyEntered

----------------------------------------------------------------------------
(* Bypass mode and the envelope types of the events Router *)

\* C17: a Router built with the insecure-bypass flag never verifies the
\* signature: a request is dispatched whatever its two signature headers
\* hold (valid, invalid, stale, absent), and the response and the handler
\* invocations are those of the dispatcher alone; a URL-verification
\* envelope is answered with 200.
C17_BypassNeverVerifies ==
  (Served /\ router.skipVerification) =>
    /\ Entered
    /\ [w |-> w, calls |-> calls] = Handler(router, req, Begin)
    /\ \A ts \in TimestampHeaders :
         \A sig \in SignatureHeaders(ts, req.body) :
           RouterServeHTTP(router, Request(ts, sig, req.ctype, req.body))
             = [w |-> w, calls |-> calls]
    /\ (router.kind = "events" /\ req.body.kind = "url_verification") =>
         StatusCode(w) = StatusOK

\* a URL-verification envelope with a stale timestamp and a signature made
\* with another key, answered with 200
C17_Witness ==
  /\ Served
  /\ router.kind = "events"
  /\ router.skipVerification
  /\ req.body.kind = "url_verification"
  /\ req.ts = "400"
  /\ req.sig = AddSignature("S2", req.body, req.ts)
  /\ StatusCode(w) = StatusOK
  /\ Len(InvocationsOf("urlVerification")) = 1

\* the status that RespondWithError gives to err
Translated(err) ==
  IF err.base = "HttpError" THEN err.code ELSE StatusInternalServerError

\* C18: with the default URL-verification handler, a URL-verification
\* envelope with challenge X is answered with 200 and the JSON body
\* {challenge: X}; when the configured URL-verification handler returns an
\* error, the error response is written and no challenge body.
C18_ChallengeEcho ==
  (Entered /\ router.kind = "events" /\ req.body.kind = "url_verification") =>
    LET h == router.urlVerificationHandler IN
    /\ InvocationsOf("urlVerification") = << Call("urlVerification", "", 0, h.res) >>
    /\ h = DefaultHandler =>
         /\ StatusCode(w) = StatusOK
         /\ w.body = << ChallengeResponse(req.body.arg) >>
         /\ Len(w.ops) = 1
    /\ h.res /= Nil =>
         /\ StatusCode(w) = Translated(h.res)
         /\ \A k \in 1..Len(w.body) : w.body[k].kind = "error"
         /\ OneResponse(w.ops)

C18_Witness ==
  /\ Entered
  /\ req.body = Body("url_verification", "Y")
  /\ router.urlVerificationHandler = DefaultHandler
  /\ StatusCode(w) = StatusOK
  /\ w.body = << ChallengeResponse("Y") >>

\* C19: a rate-limited envelope that decodes invokes the configured
\* rate-limit handler exactly once; when it returns nil the response is 200
\* with the body "OK"; when it returns an error the error is translated as
\* for a callback and "OK" is not written. The default handler returns nil.
C19_RateLimited ==
  (Entered /\ router.kind = "events" /\ req.body = Body("app_rate_limited", "decodes")) =>
    LET h == router.appRateLimitedHandler IN
    /\ InvocationsOf("appRateLimited") = << Call("appRateLimited", "", 0, h.res) >>
    /\ h = DefaultHandler => h.res = Nil
    /\ h.res = Nil =>
         /\ StatusCode(w) = StatusOK
         /\ w.body = << OKBody >>
    /\ h.res /= Nil =>
         /\ StatusCode(w) = Translated(h.res)
         /\ \A k \in 1..Len(w.body) : w.body[k] /= OKBody
         /\ OneResponse(w.ops)

C19_Witness ==
  /\ Entered
  /\ req.body = Body("app_rate_limited", "decodes")
  /\ router.appRateLimitedHandler = HandlerFunc(WithMessage(HttpError(StatusUnauthorized)))
  /\ router.verboseResponse
  /\ StatusCode(w) = StatusUnauthorized
  /\ Len(w.body) = 1

\* C20: an envelope whose outer type is none of url_verification,
\* event_callback and app_rate_limited is answered with 400, and no handler
\* is invoked, the Fallback included.
C20_UnknownTypeIsBadRequest ==
  (Entered /\ router.kind = "events" /\ req.body.kind = "unknown_type") =>
    /\ StatusCode(w) = StatusBadRequest
    /\ OnlyEntered
    /\ OneResponse(w.ops)

C20_Witness ==
  /\ Entered
  /\ req.body.kind = "unknown_type"
  /\ router.fallbackHandler = HandlerFunc(Nil)
  /\ StatusCode(w) = StatusBadRequest
  /\ OnlyEntered

----------------------------------------------------------------------------
(* Freshness and round trip *)

\* the request carries the signature of its own timestamp and body under
\* the Router's secret
CorrectlySigned ==
  /\ SignedServed
  /\ BodyReceived
  /\ ParseInt(req.ts).ok
  /\ req.sig = AddSignature(router.signingSecret, req.body, req.ts)

\* C21: a correctly signed request is accepted exactly when
\* abs(now - timestamp) <= 300 seconds, on both sides of now; outside the
\* window it is rejected by the Middleware, for the reason "expired
\* timestamp", and nothing downstream runs.
C21_FreshnessWindow ==
  CorrectlySigned =>
    LET age == Abs(Now - ParseInt(req.ts).v) IN
    /\ Entered <=> age <= MaxAge
    /\ age > MaxAge =>
         /\ calls = <<>>
         /\ RejectedByMiddleware
         /\ router.verboseResponse =>
              w.body = << ErrorText("failed to initialize verifier", ErrExpiredTimestamp) >>

\* now - 299 s is accepted
C21_Witness ==
  /\ CorrectlySigned
  /\ req.ts = "3701"
  /\ Entered
  /\ StatusCode(w) = StatusOK

\* C22: a request that carries the headers made by signing (S, T, B), with T
\* inside the freshness window, is accepted by the Middleware of a Router
\* configured with S: the wrapped handler is invoked with it and its
\* response is the response.
C22_RoundTrip ==
  (CorrectlySigned /\ Abs(Now - ParseInt(req.ts).v) <= MaxAge) =>
    /\ Entered
    /\ [w |-> w, calls |-> calls] = Handler(router, req, Begin)

C22_Witness ==
  /\ CorrectlySigned
  /\ router.signingSecret = "S2"
  /\ router.kind = "interaction"
  /\ req.ts = "4299"
  /\ Entered
  /\ Len(InvocationsOf("fallback")) = 1

----------------------------------------------------------------------------
(* Frame properties *)

ListOf(r, t) == IF t \in DOMAIN r.callbackHandlers THEN r.callbackHandlers[t] ELSE <<>>

\* C24: every step that changes the registry is one On(T, h): the list of T
\* is the list before with h appended at its end, the lists of the other
\* types are unchanged, no type disappears, and the fallback slot and the
\* other fields of the Router are unchanged. Hence each list holds the
\* handlers registered for its type in call order.
C24_RegistryAppendOnly ==
  [][ (/\ router /= NoRouter
       /\ router' /= NoRouter
       /\ router'.callbackHandlers /= router.callbackHandlers) =>
        /\ \E t \in DOMAIN router'.callbackHandlers :
             /\ Len(ListOf(router', t)) = Len(ListOf(router, t)) + 1
             /\ SubSeq(ListOf(router', t), 1, Len(ListOf(router, t))) = ListOf(router, t)
             /\ DOMAIN router'.callbackHandlers = DOMAIN router.callbackHandlers \cup {t}
             /\ \A u \in DOMAIN router.callbackHandlers \ {t} :
                  router'.callbackHandlers[u] = router.callbackHandlers[u]
        /\ [router' EXCEPT !.callbackHandlers = router.callbackHandlers] = router ]_vars

\* two handlers of one type in call order, with a fallback set
C24_Witness ==
  /\ router /= NoRouter
  /\ router.fallbackHandler = HandlerFunc(OtherError)
  /\ ListOf(router, "message") = << HandlerFunc(Nil), HandlerFunc(NotInterested) >>
  /\ ~Served

\* the handler that the slot holds according to the calls made: the one of
\* the latest call, or what New put there
Expected(slot) ==
  IF passed[slot].called THEN passed[slot].h
  ELSE IF slot = "fallback" \/ router.kind /= "events" THEN NilHandler
  ELSE DefaultHandler

\* the slot of the Router
SlotOf(r, slot) ==
  CASE slot = "fallback" -> r.fallbackHandler
    [] slot = "urlVerification" -> r.urlVerificationHandler
    [] slot = "appRateLimited" -> r.appRateLimitedHandler

\* C25: after any number of calls of SetFallback,
\* SetURLVerificationHandler and SetAppRateLimitedHandler, the slot holds
\* the handler of the latest call, and a request served then invokes, for
\* each slot, at most one handler, which is that one; a handler passed in an
\* earlier call is not invoked.
C25_LastWriteWins ==
  router /= NoRouter =>
    \A slot \in Slots :
      /\ SlotOf(router, slot) = Expected(slot)
      /\ \A rq \in (DispatchRequests \cup {req}) \ {NoRequest} :
           LET invoked == SelectSeq(RouterServeHTTP(router, rq).calls,
                                    LAMBDA c : c.slot = slot)
           IN /\ Len(invoked) <= 1
              /\ \A k \in 1..Len(invoked) : invoked[k].res = Expected(slot).res

\* SetFallback was called with a handler that fails and later with one that
\* does not, and a request served after that invoked the latter, once
C25_Witness ==
  /\ Served
  /\ passed["fallback"] = [called |-> TRUE, h |-> HandlerFunc(Nil), overwrote |-> TRUE]
  /\ passed["urlVerification"].overwrote
  /\ RouterServeHTTP(router, req) = [w |-> w, calls |-> calls]
  /\ InvocationsOf("fallback") = << Call("fallback", req.body.arg, 0, Nil) >>
  /\ StatusCode(w) = StatusOK

\* the interaction type standing for an event type in a configuration of the
\* interaction Router
InteractionTypeOf(t) == IF t = "message" THEN "block_actions" ELSE "shortcut"

\* the interaction Router with the configuration of the events Router r: the
\* same handlers in the same order under the corresponding types, the same
\* fallback, the same options
AsInteractionRouter(r) ==
  [r EXCEPT !.kind = "interaction",
            !.callbackHandlers =
               [it \in { InteractionTypeOf(t) : t \in DOMAIN r.callbackHandlers } |->
                  r.callbackHandlers[CHOOSE t \in DOMAIN r.callbackHandlers :
                                       InteractionTypeOf(t) = it]]]

\* the form request that carries the interaction callback corresponding to
\* the callback envelope of rq
AsInteractionRequest(rq) ==
  Request(rq.ts, rq.sig, "application/x-www-form-urlencoded",
          Body("interaction", InteractionTypeOf(rq.body.arg)))

\* which handlers were invoked, in order, and with which results
Invocations(cs) == [i \in 1..Len(cs) |-> <<cs[i].slot, cs[i].idx, cs[i].res>>]

\* C26: for every configuration of handlers, fallback and results, the
\* interaction Router's serveHTTP dispatches a callback as the events
\* Router's serveHTTP dispatches a callback envelope: the same handlers are
\* invoked in the same order the same number of times, and the response
\* status is the same.
C26_SameDispatch ==
  router /= NoRouter /\ router.kind = "events" =>
    \A rq \in CallbackRequests :
      LET ev == serveHTTP(router, rq, Begin)
          ia == InteractionServeHTTP(AsInteractionRouter(router), AsInteractionRequest(rq), Begin)
      IN /\ Invocations(ia.calls) = Invocations(ev.calls)
         /\ StatusCode(ia.w) = StatusCode(ev.w)

\* the events Router served a callback in which the first handler declined
\* with a wrapped NotInterested, the second declined, and the fallback failed
\* with an HttpError; the interaction Router with that configuration does
\* the same
C26_Witness ==
  /\ CallbackDispatched
  /\ Invocations(calls) =
       << <<"serveHTTP", 0, Nil>>,
          <<"handler", 1, WithMessage(NotInterested)>>,
          <<"handler", 2, NotInterested>>,
          <<"fallback", 0, HttpError(StatusNotFound)>> >>
  /\ StatusCode(w) = StatusNotFound
  /\ LET ia == InteractionServeHTTP(AsInteractionRouter(router), AsInteractionRequest(req), Begin)
     IN Invocations(ia.calls) = Invocations(calls) /\ StatusCode(ia.w) = StatusCode(w)

\* the served request was answered with an error status
ErrorResponse == Served /\ StatusCode(w) >= StatusBadRequest

\* C27: the body of an error response is empty when VerboseResponse is not
\* set, and carries the text of the error when it is set; this for the
\* rejections of the Middleware, the parse failures and the handler errors.
C27_ErrorBody ==
  ErrorResponse =>
    IF router.verboseResponse
      THEN Len(w.body) = 1 /\ w.body[1].kind = "error"
      ELSE w.body = <<>>

\* the two Routers answer every request alike in the two states of a step
SameBehaviour(r, rAfter) ==
  \A rq \in UnsignedRequests : RouterServeHTTP(rAfter, rq) = RouterServeHTTP(r, rq)

HasEntry(p) ==
  \E k \in 1..Len(req.body.data.block_actions) :
    /\ req.body.data.block_actions[k].block_id = p.arg.blockID
    /\ req.body.data.block_actions[k].action_id = p.arg.actionID

\* how many entries of the served callback have both fields of the predicate
NumEntries(p) ==
  Cardinality({ k \in 1..Len(req.body.data.block_actions) :
                  /\ req.body.data.block_actions[k].block_id = p.arg.blockID
                  /\ req.body.data.block_actions[k].action_id = p.arg.actionID })

\* C30: a handler registered with BlockAction(blockID, actionID) that the
\* dispatch loop calls is invoked, exactly once, when the callback has at
\* least one entry whose BlockID and ActionID both equal the given ones, also
\* when several entries do; otherwise it returns NotInterested and is not
\* invoked.
C30_BlockActionMatch ==
  PayloadDispatched /\ req.body.arg = "block_actions" =>
    \A i \in 1..Len(Registered) :
      (Called(i) /\ Registered[i].fn = "wrap" /\ Registered[i].pred.kind = "BlockAction") =>
        IF HasEntry(Registered[i].pred)
          THEN /\ Len(TerminalInvocations(i)) = 1
               /\ Returned(i) = Registered[i].next.res
          ELSE /\ TerminalInvocations(i) = <<>>
               /\ Returned(i) = NotInterested

\* two entries of the served callback have both fields of the predicate, and
\* the handler was invoked once
C30_Witness ==
  /\ PayloadDispatched
  /\ Len(Registered) >= 1
  /\ Registered[1] = Build(HandlerFunc(Nil), << BlockAction("B1", "A1") >>)
  /\ NumEntries(BlockAction("B1", "A1")) = 2
  /\ TerminalInvocations(1) = << Call("handler", "block_actions", 1, Nil) >>
  /\ StatusCode(w) = StatusOK

----------------------------------------------------------------------------
(* Error paths, typed registrations and the order of the Middleware *)

\* C31: when the raw body of an app_rate_limited envelope cannot be decoded
\* again, the Router responds with the translated error only: the rate-limit
\* handler is not invoked and the acknowledgement "OK" is not written.
C31_DecodeFailureErrorPathOnly ==
  (Entered /\ router.kind = "events"
     /\ req.body = Body("app_rate_limited", "undecodable")) =>
    /\ StatusCode(w) = StatusInternalServerError
    /\ InvocationsOf("appRateLimited") = <<>>
    /\ \A k \in 1..Len(w.body) : w.body[k] /= OKBody

\* every predicate of the list matches the payload of the served request
AllMatch(preds) == \A k \in 1..Len(preds) : Matches(preds[k], req.body.data)

RECURSIVE Terminal(_)
\* the handler that a registration was built around
Terminal(h) == IF h.fn \in {"wrap", "typed"} THEN Terminal(h.next) ELSE h

RECURSIVE PredicatesIn(_)
\* the predicates of a registration, outermost first
PredicatesIn(h) ==
  CASE h.fn = "wrap" -> << h.pred >> \o PredicatesIn(h.next)
    [] h.fn = "typed" -> PredicatesIn(h.next)
    [] OTHER -> <<>>

\* the Router with every registration made without its predicates
WithoutPredicates(r) ==
  [r EXCEPT !.callbackHandlers =
     [t \in DOMAIN @ |->
        [i \in 1..Len(@[t]) |->
           Registration(r.kind, Terminal(@[t][i]), <<>>)]]]

\* the handler and fallback invocations among the recorded calls
NotPredicates(cs) == SelectSeq(cs, LAMBDA c : c.slot /= "predicate")

\* C32: a chain of predicates that all match returns the result of the
\* wrapped handler unchanged, be it nil, NotInterested (bare or wrapped), an
\* HttpError or another error; a request whose payload matches every
\* predicate of the handlers registered for its type is answered, and its
\* handlers are invoked, as by the Router with the same handlers registered
\* without predicates.
C32_MatchIsTransparent ==
  PayloadDispatched =>
    /\ \A preds \in AllPredicateLists, res \in Results :
         AllMatch(preds) =>
           HandleEvent(Build(HandlerFunc(res), preds), req.body, "handler", 1, Begin).err
             = res
    /\ (\A i \in 1..Len(Registered) : AllMatch(PredicatesIn(Registered[i]))) =>
         LET bare == RouterServeHTTP(WithoutPredicates(router), req)
         IN /\ StatusCode(w) = StatusCode(bare.w)
            /\ NotPredicates(calls) = bare.calls

\* a handler that fails was registered with two predicates, both matched,
\* and its error reached the dispatcher
C32_Witness ==
  /\ PayloadDispatched
  /\ router.kind = "events"
  /\ Len(Registered) = 1
  /\ Terminal(Registered[1]) = HandlerFunc(OtherError)
  /\ PredicatesIn(Registered[1]) = << Channel("C1"), TextRegexp("hello") >>
  /\ Len(PredicatesEvaluated(1)) = 2
  /\ AllMatch(PredicatesIn(Registered[1]))
  /\ TerminalInvocations(1) = << Call("handler", "message", 1, OtherError) >>
  /\ StatusCode(w) = StatusInternalServerError

\* the same Router without the handlers of the types other than the one of
\* the served request
OwnTypeOnly(r) ==
  [r EXCEPT !.callbackHandlers =
     [t \in DOMAIN @ \cap {req.body.arg} |-> @[t]]]

\* C33: a callback is resolved by the handlers registered for its inner type
\* and the Fallback only: every handler invoked is one of the list of that
\* type, none when the list is empty, and the invocations and the response
\* are those of the Router without the handlers of the other types.
C33_TypeKeyedRouting ==
  (CallbackDispatched /\ router.kind = "events") =>
    /\ \A k \in 1..Len(calls) :
         calls[k].slot = "handler" =>
           /\ calls[k].type = req.body.arg
           /\ calls[k].idx \in 1..Len(Registered)
           /\ calls[k].res = Registered[calls[k].idx].res
    /\ Len(InvocationsOf("handler")) <= Len(Registered)
    /\ RouterServeHTTP(OwnTypeOnly(router), req) = [w |-> w, calls |-> calls]

\* a handler that would succeed is registered for another type only, and the
\* request was resolved by the Fallback (the test at eventrouter_test.go
\* 278-289, with a fallback that fails)
C33_Witness ==
  /\ CallbackDispatched
  /\ req.body.arg = "message"
  /\ Registered = <<>>
  /\ ListOf(router, "reaction_added") = << HandlerFunc(Nil) >>
  /\ router.fallbackHandler = HandlerFunc(HttpError(StatusNotFound))
  /\ InvocationsOf("handler") = <<>>
  /\ InvocationsOf("fallback") = << Call("fallback", "message", 0, HttpError(StatusNotFound)) >>
  /\ StatusCode(w) = StatusNotFound

RECURSIVE Concat(_)
\* the chunks one after the other
Concat(chunks) == IF chunks = <<>> THEN <<>> ELSE Head(chunks) \o Concat(Tail(chunks))

\* the served request came as a stream and passed the Middleware
StreamVerified ==
  /\ Served
  /\ "stream" \in DOMAIN req
  /\ \E k \in 1..Len(calls) : calls[k].slot = "serveHTTP"

\* the steps of the Middleware and the Reads of the body, in order
Steps == SelectSeq(calls, LAMBDA c : c.slot = "middleware")

\* the Reads that returned a chunk of the given reader
ReadsOf(source) == SelectSeq(Steps, LAMBDA c : c.step = "Read" /\ c.source = source)

\* the recorded calls without the steps of the Middleware
NotMiddleware(cs) == SelectSeq(cs, LAMBDA c : c.slot /= "middleware")

\* C34: after a successful verification the wrapped handler reads the very
\* bytes that were written to the HMAC, which are the bytes of the transport,
\* complete and in order, however they were chunked; every chunk of the
\* transport is read once, by the Middleware, and the handler reads from the
\* buffer.
C34_TeeAndReplay ==
  StreamVerified =>
    LET sent == Concat(req.stream.chunks)
        rd == ReadAllTee(req.stream, Begin)
        replayed == ReadAll(NewReader(rd.body), Begin).body
    IN /\ rd.hashed = sent
       /\ rd.body = sent
       /\ replayed = sent
       /\ Len(ReadsOf("transport")) = Len(req.stream.chunks)
       /\ Len(ReadsOf("buffer")) = 1
       /\ RouterServeHTTP(router, req).calls = calls
       /\ Decode(replayed) = req.body
       /\ LET whole == [req EXCEPT !.stream = Stream(<< sent >>, FALSE, "transport")]
          IN /\ RouterServeHTTP(router, whole).w = w
             /\ NotMiddleware(RouterServeHTTP(router, whole).calls) = NotMiddleware(calls)

\* a body that came in three chunks was verified and handed on whole
C34_Witness ==
  /\ StreamVerified
  /\ Len(req.stream.chunks) = 3
  /\ req.body = Body("url_verification", "X")
  /\ Len(ReadsOf("transport")) = 3
  /\ w.body = << ChallengeResponse("X") >>
  /\ StatusCode(w) = StatusOK

\* the names of the steps of the Middleware, in order
StepNames == [k \in 1..Len(Steps) |-> Steps[k].step]

\* the served request came as a stream to a Router with a Middleware
StreamServed == Served /\ "stream" \in DOMAIN req /\ router.httpHandler /= "serveHTTP"

\* the signature of the served request is not the one of its body under the
\* secret of the Router
WronglySigned ==
  req.sig.mac /= Hmac(router.signingSecret, BaseString(req.ts, Concat(req.stream.chunks)))

\* C35: the Middleware decides on the headers, the timestamp and its age
\* before it reads any byte of the body, and compares the signature only
\* after it read the whole body without error: a rejection for the headers
\* or the age is made with no Read and no comparison, also when the
\* signature is wrong as well; a body that fails to read is answered 500
\* with no comparison; a comparison is preceded by the Reads of all chunks.
C35_VerificationOrder ==
  StreamServed =>
    LET v == NewSecretsVerifier(req, router.signingSecret) IN
    /\ Len(Steps) >= 1 /\ StepNames[1] = "NewSecretsVerifier"
    /\ v.err /= Nil =>
         /\ StepNames = << "NewSecretsVerifier" >>
         /\ StatusCode(w) >= StatusBadRequest
         /\ NotMiddleware(calls) = <<>>
    /\ (v.err = Nil /\ req.stream.fails) =>
         /\ StatusCode(w) = StatusInternalServerError
         /\ \A k \in 1..Len(Steps) : StepNames[k] /= "Ensure"
         /\ NotMiddleware(calls) = <<>>
    /\ \A k \in 1..Len(Steps) :
         StepNames[k] = "Ensure" =>
           /\ k = Len(req.stream.chunks) + 2
           /\ \A j \in 2..(k - 1) : Steps[j] = Step("Read", "transport")
    /\ (v.err = Nil /\ ~req.stream.fails /\ WronglySigned) =>
         /\ StatusCode(w) = StatusUnauthorized
         /\ NotMiddleware(calls) = <<>>

\* a stale request with a wrong signature, whose body would also fail to
\* read, was rejected for its age: 401 by the Middleware of signature.go,
\* with the text of the expired timestamp, and nothing was read
C35_Witness ==
  /\ StreamServed
  /\ router.kind = "interaction"
  /\ router.verboseResponse
  /\ req.ts = "399"
  /\ WronglySigned
  /\ req.stream.fails
  /\ Len(req.stream.chunks) = 2
  /\ StepNames = << "NewSecretsVerifier" >>
  /\ StatusCode(w) = StatusUnauthorized
  /\ w.body = << ErrorText("failed to initialize verifier", ErrExpiredTimestamp) >>

----------------------------------------------------------------------------
(* Calls at the same time *)

\* the request that the goroutine g serves, as it arrived
RequestOf(g) == Request("", NoSignature, "application/json", inflight[g].e)

\* C36: with the registry no longer modified, a callback served while
\* another one is being served gets the handler invocations and the response
\* that it gets when it is served alone, in every interleaving of the
\* statements of the two dispatches.
C36_ConcurrentDispatch ==
  router /= NoRouter =>
    \A g \in Goroutines :
      inflight[g].pc = "done" =>
        inflight[g].st = RouterServeHTTP(router, RequestOf(g))

\* two callbacks of different types were served with their statements
\* interleaved; one was claimed by the second handler of its type, the other
\* was resolved by the fallback
C36_Witness ==
  /\ router /= NoRouter
  /\ \A g \in Goroutines : inflight[g].pc = "done" /\ inflight[g].overlapped
  /\ inflight[1].e.arg = "message"
  /\ inflight[2].e.arg = "reaction_added"
  /\ ListOf(router, "message") = << HandlerFunc(NotInterested), HandlerFunc(OtherError) >>
  /\ StatusCode(inflight[1].st.w) = StatusInternalServerError
  /\ StatusCode(inflight[2].st.w) = StatusNotFound
  /\ Len(inflight[1].st.calls) = 3

\* both calls of On returned
BothRegistered == \A g \in Goroutines : pending[g].pc = "done"

\* the call of g loaded the list after the call of o had stored
LoadedAfter(g, o) == o \in pending[g].after

\* C37: On loads the list, appends and stores without a lock. Two calls for
\* the same type that do not overlap leave both handlers in the list, in the
\* order of the calls; two calls that overlap (each loaded the list before
\* the other stored) leave exactly one of the two handlers in it, the other
\* is lost, or the program is stopped by the runtime. So both handlers are
\* not always present under arbitrary interleaving.
C37_UnsynchronizedOn ==
  (router /= NoRouter /\ BothRegistered
     /\ pending[1].eventType = pending[2].eventType) =>
    LET list == ListOf(router, pending[1].eventType) IN
    /\ LoadedAfter(2, 1) => list = << pending[1].h, pending[2].h >>
    /\ LoadedAfter(1, 2) => list = << pending[2].h, pending[1].h >>
    /\ (~LoadedAfter(2, 1) /\ ~LoadedAfter(1, 2)) =>
         /\ Len(list) = 1
         /\ list[1] \in { pending[1].h, pending[2].h }

\* two overlapping calls of On for the type message returned, the handler of
\* one of them is lost, and a message callback was answered by the other
C37_Witness ==
  /\ router /= NoRouter
  /\ BothRegistered
  /\ pending[1].eventType = "message" /\ pending[2].eventType = "message"
  /\ pending[1].h = HandlerFunc(Nil) /\ pending[2].h = HandlerFunc(OtherError)
  /\ ~LoadedAfter(2, 1) /\ ~LoadedAfter(1, 2)
  /\ ListOf(router, "message") = << HandlerFunc(OtherError) >>
  /\ Served /\ req.body.arg = "message"
  /\ StatusCode(w) = StatusInternalServerError

\* the slots of the callback registry: On / OnMessage / ... handlers, their
\* predicates, and the fallback
RegistrySlots == {"handler", "predicate", "fallback"}

\* C38: a url_verification or app_rate_limited envelope is handled by its
\* own handler only: whatever is registered with On and SetFallback, no
\* registered handler and no fallback is invoked for it.
C38_EnvelopesBypassRegistry ==
  (Entered /\ router.kind = "events"
     /\ req.body.kind \in {"url_verification", "app_rate_limited"}) =>
    \A k \in 1..Len(calls) : calls[k].slot \notin RegistrySlots

\* a rate-limit envelope was answered with "OK" by a Router that has a
\* registered handler and a fallback, neither of which ran
C38_Witness ==
  /\ Entered /\ router.kind = "events"
  /\ req.body = Body("app_rate_limited", "decodes")
  /\ NumHandlers(router) > 0
  /\ router.fallbackHandler = HandlerFunc(OtherError)
  /\ StatusCode(w) = StatusOK
  /\ calls = << Call("serveHTTP", "", 0, Nil), Call("appRateLimited", "", 0, Nil) >>

\* the handler at position i was registered by OnMessage and the data of the
\* served callback has not the concrete type it asserts
Mismatched(i) ==
  /\ Registered[i].fn = "typed"
  /\ Registered[i].want /= req.body.data.dtype

\* every handler before position i is a plain one that declines
ReachesPosition(i) ==
  \A j \in 1..(i - 1) : Registered[j].fn = "func" /\ Declines(Registered[j].res)

\* the invocations and predicate evaluations of the handler at position i
RanAt(i) ==
  \E k \in 1..Len(calls) :
    calls[k].slot \in {"handler", "predicate"} /\ calls[k].idx = i

\* C39: a handler registered by OnMessage runs (its predicates and itself)
\* only on data of the concrete type it asserts; on other data it returns
\* HttpError(400) without evaluating a predicate or the handler, the
\* dispatch stops there, later handlers and the fallback are not invoked
\* and the status is 400.
C39_TypedRegistrationGuards ==
  (CallbackDispatched /\ router.kind = "events" /\ "data" \in DOMAIN req.body) =>
    \A i \in 1..Len(Registered) :
      Mismatched(i) =>
        /\ ~RanAt(i)
        /\ ReachesPosition(i) =>
             /\ StatusCode(w) = StatusBadRequest
             /\ InvocationsOf("fallback") = <<>>
             /\ \A j \in (i + 1)..Len(Registered) : ~RanAt(j)

\* a plain handler declined, the OnMessage registration after it got data
\* of another type: 400, and the fallback that is set was not invoked
C39_Witness ==
  /\ CallbackDispatched /\ router.kind = "events" /\ "data" \in DOMAIN req.body
  /\ req.body.data \in OtherEvents
  /\ Len(Registered) = 2
  /\ Registered[1] = HandlerFunc(NotInterested)
  /\ Registered[2] = TypedHandler("MessageEvent",
                                  Build(HandlerFunc(Nil), << TextRegexp("hello") >>))
  /\ router.fallbackHandler = HandlerFunc(Nil)
  /\ StatusCode(w) = StatusBadRequest
  /\ calls = << Call("serveHTTP", "", 0, Nil),
                Call("handler", "message", 1, NotInterested) >>

\* the invocation received the context of the served request
ReceivedContext(c) == "ctx" \in DOMAIN c /\ c.ctx = req.ctx

\* C40: every handler, fallback and predicate invocation made while serving
\* a request receives the context of that request, on both Routers.
C40_ContextPassThrough ==
  (Entered /\ "ctx" \in DOMAIN req) =>
    \A k \in 1..Len(calls) :
      calls[k].slot \in RegistrySlots => ReceivedContext(calls[k])

====
